---- MODULE Spec2Model ----
(***************************************************************************)
(* Pipeline orchestration and policy gate of the Universal Researcher AI  *)
(* backend (app/main.py, app/services/ethics.py), as documented in        *)
(* docs/COMPLETE_DOCUMENTATION.md.                                         *)
(*                                                                         *)
(* Text is a sequence of one-character strings, so that Python's          *)
(* `keyword in full_text` is a real substring search ("bioweapon"         *)
(* contains "weapon") and str.lower() is a real conversion.               *)
(***************************************************************************)
EXTENDS Integers, Sequences, FiniteSets, TLC

(***************************************************************************)
(* Bounds of the model.                                                    *)
(***************************************************************************)
\* longest list generate_hypotheses returns in one run
MaxHyps == 2

(***************************************************************************)
(* Text helpers: str.lower(), `in`, f-string concatenation.                *)
(***************************************************************************)
UpperChars == <<"A", "B", "C", "D", "E", "F", "G", "H", "I", "J", "K", "L", "M", "N", "O", "P", "Q", "R", "S", "T", "U", "V", "W", "X", "Y", "Z">>

LowerChars == <<"a", "b", "c", "d", "e", "f", "g", "h", "i", "j", "k", "l", "m", "n", "o", "p", "q", "r", "s", "t", "u", "v", "w", "x", "y", "z">>

\* the lower-case letter of every upper-case letter
LowerMap ==
    [c \in {UpperChars[i] : i \in 1..Len(UpperChars)} |->
        LowerChars[CHOOSE i \in 1..Len(UpperChars) : UpperChars[i] = c]]

\* one character of str.lower(): only upper-case letters change
LowerChar(c) == IF c \in DOMAIN LowerMap THEN LowerMap[c] ELSE c

\* str.lower() of text[lo..hi], by halves
RECURSIVE LowerRange(_, _, _)
LowerRange(text, lo, hi) ==
    IF lo > hi
    THEN <<>>
    ELSE IF lo = hi
         THEN <<LowerChar(text[lo])>>
         ELSE LowerRange(text, lo, (lo + hi) \div 2)
              \o LowerRange(text, (lo + hi) \div 2 + 1, hi)

\* str.lower()
Lower(text) == CHOOSE lower \in {LowerRange(t, 1, Len(t)) : t \in {text}} : TRUE

\* kw occurs in text at offset i
MatchAt(text, kw, i) == \A j \in 1..Len(kw) : text[i + j - 1] = kw[j]

\* Python's `kw in text` on strings
Contains(text, kw) == \E i \in 1..(Len(text) - Len(kw) + 1) : MatchAt(text, kw, i)

\* any(keyword in text for keyword in keywords)
ContainsAny(text, keywords) ==
    \E k \in 1..Len(keywords) : Contains(text, keywords[k])

(***************************************************************************)
(* app/services/ethics.py: keyword tables.                                 *)
(***************************************************************************)
BIAS_KEYWORDS ==
    << <<"d", "i", "s", "c", "r", "i", "m", "i", "n", "a", "t", "o", "r", "y">>, <<"b", "i", "a", "s", "e", "d">>, <<"h", "a", "r", "m", "f", "u", "l">>, <<"p", "r", "e", "j", "u", "d", "i", "c", "e", "d">>,
       <<"s", "t", "e", "r", "e", "o", "t", "y", "p", "i", "c", "a", "l">>, <<"r", "a", "c", "i", "s", "t">>, <<"s", "e", "x", "i", "s", "t">>, <<"a", "g", "e", "i", "s", "t">>,
       <<"h", "o", "m", "o", "p", "h", "o", "b", "i", "c">>, <<"x", "e", "n", "o", "p", "h", "o", "b", "i", "c">> >>

SAFETY_KEYWORDS ==
    << <<"d", "a", "n", "g", "e", "r", "o", "u", "s">>, <<"t", "o", "x", "i", "c">>, <<"e", "x", "p", "l", "o", "s", "i", "v", "e">>, <<"r", "a", "d", "i", "o", "a", "c", "t", "i", "v", "e">>,
       <<"c", "a", "r", "c", "i", "n", "o", "g", "e", "n", "i", "c">>, <<"l", "e", "t", "h", "a", "l">>, <<"p", "o", "i", "s", "o", "n", "o", "u", "s">>, <<"h", "a", "z", "a", "r", "d", "o", "u", "s">>,
       <<"w", "e", "a", "p", "o", "n">>, <<"b", "i", "o", "w", "e", "a", "p", "o", "n">> >>

human_subjects_keywords ==
    << <<"h", "u", "m", "a", "n">>, <<"p", "a", "t", "i", "e", "n", "t">>, <<"p", "a", "r", "t", "i", "c", "i", "p", "a", "n", "t">>, <<"v", "o", "l", "u", "n", "t", "e", "e", "r">>, <<"s", "u", "b", "j", "e", "c", "t">> >>

human_subjects_clearance ==
    << <<"i", "r", "b">>, <<"e", "t", "h", "i", "c", "s">>, <<"c", "o", "n", "s", "e", "n", "t">> >>

environmental_keywords ==
    << <<"e", "n", "v", "i", "r", "o", "n", "m", "e", "n", "t">>, <<"e", "c", "o", "s", "y", "s", "t", "e", "m">>, <<"p", "o", "l", "l", "u", "t", "i", "o", "n">>, <<"w", "a", "s", "t", "e">>, <<"e", "m", "i", "s", "s", "i", "o", "n">> >>

environmental_clearance ==
    << <<"i", "m", "p", "a", "c", "t">>, <<"a", "s", "s", "e", "s", "s", "m", "e", "n", "t">> >>

dual_use_keywords ==
    << <<"m", "i", "l", "i", "t", "a", "r", "y">>, <<"w", "e", "a", "p", "o", "n">>, <<"s", "u", "r", "v", "e", "i", "l", "l", "a", "n", "c", "e">>, <<"c", "o", "n", "t", "r", "o", "l">>, <<"m", "a", "n", "i", "p", "u", "l", "a", "t", "i", "o", "n">> >>

(***************************************************************************)
(* Hypotheses are Python dicts: functions from the keys that are present. *)
(* dict.get(key, default) returns the default for an absent key.          *)
(***************************************************************************)
Get(d, key, default) == IF key \in DOMAIN d THEN d[key] ELSE default

EmptyDict == [k \in {} |-> 0]

Space == <<" ">>

\* full_text = f"{statement} {protocol} {materials}".lower()
FullText(hypothesis) ==
    LET statement == Get(hypothesis, "statement", <<>>)
        design    == Get(hypothesis, "design", EmptyDict)
        protocol  == Get(design, "protocol", <<>>)
        materials == Get(design, "materials", <<>>)
    IN  Lower(statement \o Space \o protocol \o Space \o materials)

\* variant: the dual-use probe is tested first
Issues_dualfirst(full_text) ==
    (IF ContainsAny(full_text, dual_use_keywords) THEN <<"dual_use_concern">> ELSE <<>>)
    \o (IF ContainsAny(full_text, SAFETY_KEYWORDS) THEN <<"safety_risk">> ELSE <<>>)
    \o (IF ContainsAny(full_text, BIAS_KEYWORDS) THEN <<"bias_detected">> ELSE <<>>)
    \o (IF /\ ContainsAny(full_text, human_subjects_keywords)
           /\ ~ContainsAny(full_text, human_subjects_clearance)
        THEN <<"human_subjects_protection">> ELSE <<>>)
    \o (IF /\ ContainsAny(full_text, environmental_keywords)
           /\ ~ContainsAny(full_text, environmental_clearance)
        THEN <<"environmental_impact">> ELSE <<>>)

\* variant: the human-subjects probe is presence-based like the others
Issues_humanAlways(full_text) ==
    (IF ContainsAny(full_text, SAFETY_KEYWORDS) THEN <<"safety_risk">> ELSE <<>>)
    \o (IF ContainsAny(full_text, BIAS_KEYWORDS) THEN <<"bias_detected">> ELSE <<>>)
    \o (IF ContainsAny(full_text, human_subjects_keywords)
        THEN <<"human_subjects_protection">> ELSE <<>>)
    \o (IF /\ ContainsAny(full_text, environmental_keywords)
           /\ ~ContainsAny(full_text, environmental_clearance)
        THEN <<"environmental_impact">> ELSE <<>>)
    \o (IF ContainsAny(full_text, dual_use_keywords) THEN <<"dual_use_concern">> ELSE <<>>)

\* variant: a clearance term (irb, ethics, consent) waives every probe
Issues_cancellable(full_text) ==
    IF ContainsAny(full_text, human_subjects_clearance)
    THEN <<>>
    ELSE (IF ContainsAny(full_text, SAFETY_KEYWORDS) THEN <<"safety_risk">> ELSE <<>>)
         \o (IF ContainsAny(full_text, BIAS_KEYWORDS) THEN <<"bias_detected">> ELSE <<>>)
         \o (IF ContainsAny(full_text, human_subjects_keywords)
             THEN <<"human_subjects_protection">> ELSE <<>>)
         \o (IF /\ ContainsAny(full_text, environmental_keywords)
                /\ ~ContainsAny(full_text, environmental_clearance)
             THEN <<"environmental_impact">> ELSE <<>>)
         \o (IF ContainsAny(full_text, dual_use_keywords) THEN <<"dual_use_concern">> ELSE <<>>)

\* the five probes, in the order the code tests them
Issues(full_text) ==
    (IF ContainsAny(full_text, SAFETY_KEYWORDS) THEN <<"safety_risk">> ELSE <<>>)
    \o (IF ContainsAny(full_text, BIAS_KEYWORDS) THEN <<"bias_detected">> ELSE <<>>)
    \o (IF /\ ContainsAny(full_text, human_subjects_keywords)
           /\ ~ContainsAny(full_text, human_subjects_clearance)
        THEN <<"human_subjects_protection">> ELSE <<>>)
    \o (IF /\ ContainsAny(full_text, environmental_keywords)
           /\ ~ContainsAny(full_text, environmental_clearance)
        THEN <<"environmental_impact">> ELSE <<>>)
    \o (IF ContainsAny(full_text, dual_use_keywords) THEN <<"dual_use_concern">> ELSE <<>>)

\* approved = len(issues) == 0, with a lenient variant that tolerates one issue
Approved_lenient(issues) == Len(issues) <= 1

Approved(issues) == Len(issues) = 0

\* one line of _generate_review_notes per issue, kept as the note's tag
NoteLine(issue) ==
    CASE issue = "safety_risk" -> "- Safety risk"
      [] issue = "bias_detected" -> "- Bias concern"
      [] issue = "human_subjects_protection" -> "- Human subjects"
      [] issue = "environmental_impact" -> "- Environmental impact"
      [] issue = "dual_use_concern" -> "- Dual-use concern"
      [] OTHER -> ""

\* _generate_review_notes: header, one line per known issue in list order, footer
generate_review_notes(issues) ==
    IF Len(issues) = 0
    THEN <<"No ethical concerns identified. Hypothesis approved for further research.">>
    ELSE <<"Ethical concerns identified:">>
         \o SelectSeq([i \in 1..Len(issues) |-> NoteLine(issues[i])], LAMBDA line : line # "")
         \o <<"Recommendation: Address these concerns before proceeding with research.">>

ethics_review_hypothesis(hypothesis) ==
    LET issues == Issues(FullText(hypothesis))
    IN  [issues       |-> issues,
         approved     |-> Approved(issues),
         review_notes |-> generate_review_notes(issues)]

(***************************************************************************)
(* Inputs and stage behaviours.                                            *)
(***************************************************************************)
Topics == {"quantum computing", ""}

\* str(e) of an exception raised inside a stage function
ExcMsgs == {"", "stage error"}

Hyp(statement, plausibility, protocol, materials) ==
    [statement    |-> statement,
     plausibility |-> plausibility,
     design       |-> [protocol |-> protocol, materials |-> materials]]

HypCatalyst  == Hyp(<<"C", "a", "t", "a", "l", "y", "s", "t">>, 60, <<"t", "e", "s", "t">>, <<"z", "i", "n", "c">>)

HypBioweapon == Hyp(<<"b", "i", "o", "w", "e", "a", "p", "o", "n">>, 90, <<"t", "e", "s", "t">>, <<"z", "i", "n", "c">>)

HypHuman     == Hyp(<<"H", "u", "m", "a", "n", " ", "t", "r", "i", "a", "l">>, 80, <<"t", "e", "s", "t">>, <<"z", "i", "n", "c">>)

HypHumanIRB  == Hyp(<<"H", "u", "m", "a", "n", " ", "t", "r", "i", "a", "l">>, 95, <<"I", "R", "B", " ", "c", "o", "n", "s", "e", "n", "t">>, <<"z", "i", "n", "c">>)

\* hypotheses generate_hypotheses may return
HypPool == {HypCatalyst, HypBioweapon, HypHuman, HypHumanIRB}

\* the hypothesis of test_ethics_gate_failure
DangerousHypothesis ==
    Hyp(<<"C", "r", "e", "a", "t", "e", " ", "d", "a", "n", "g", "e", "r", "o", "u", "s", " ", "b", "i", "o", "w", "e", "a", "p", "o", "n">>, 50, <<"D", "a", "n", "g", "e", "r", "o", "u", "s", " ", "p", "r", "o", "c", "e", "d", "u", "r", "e">>, <<"T", "o", "x", "i", "c", " ", "s", "u", "b", "s", "t", "a", "n", "c", "e", "s">>)

\* request bodies of POST /simulate: any dict, keys may be missing
SimulateInputs ==
    HypPool
    \cup {DangerousHypothesis,
          EmptyDict,
          [statement |-> <<"B", "i", "a", "s", "e", "d", " ", "C", "o", "n", "t", "r", "o", "l">>],
          [statement |-> <<"t", "o", "x", "i", "c">>, design |-> EmptyDict],
          [design |-> [protocol |-> <<"P", "a", "t", "i", "e", "n", "t">>, materials |-> <<"e", "t", "h", "i", "c", "s">>]],
          Hyp(<<"R", "i", "v", "e", "r">>, 70, <<"w", "a", "s", "t", "e">>, <<"f", "i", "l", "t", "e", "r">>),
          Hyp(<<"R", "i", "v", "e", "r">>, 70, <<"W", "a", "s", "t", "e">>, <<"I", "m", "p", "a", "c", "t">>),
          Hyp(<<"c", "a", "m", "e", "r", "a">>, 40, <<"s", "u", "r", "v", "e", "i", "l", "l", "a", "n", "c", "e">>, <<"l", "e", "n", "s">>),
          Hyp(<<"T", "r", "i", "a", "l">>, 70, <<"H", "u", "m", "a", "n", " ", "c", "o", "h", "o", "r", "t">>, <<"f", "o", "r", "m", "s">>),
          Hyp(<<"B", "i", "o", "w", "e", "a", "p", "o", "n", " ", "s", "t", "u", "d", "y">>, 50, <<"I", "R", "B", " ", "c", "o", "n", "s", "e", "n", "t">>, <<"i", "m", "p", "a", "c", "t", " ", "a", "s", "s", "e", "s", "s", "m", "e", "n", "t">>),
          Hyp(<<"T", "o", "x", "i", "c", " ", "b", "i", "a", "s", "e", "d">>, 30, <<"h", "u", "m", "a", "n", " ", "w", "a", "s", "t", "e">>, <<"w", "e", "a", "p", "o", "n">>)}

SeqsUpTo(S, n) == UNION {[1..k -> S] : k \in 0..n}

\* ingest_and_curate: a list of CuratedData (possibly empty); run_full_flow
\* only passes the list on, so any list stands for the curated papers
IngestResults ==
    {<<>>, <<[content |-> "paper", quality_score |-> 75]>>}

\* model_knowledge: a list of KnowledgeEntity (possibly empty); no document,
\* no entity, since the loop over data_list is the only place that appends
ModelResults(data_list) ==
    IF Len(data_list) = 0
    THEN {<<>>}
    ELSE {<<>>, <<[entity |-> "method", relation |-> "IS_A", evidence_score |-> 90]>>}

\* generate_hypotheses: zero or more Hypothesis records
GenerateResults == SeqsUpTo(HypPool, MaxHyps)

\* run_simulation re-runs the policy gate on the hypothesis; a hypothesis the
\* gate rejects never gets ethics_passed = True, and the simulation's own
\* parameter review may still fail one the gate approves
SimulationResults(hypothesis) ==
    {[output |-> "metrics", score |-> 80, ethics_passed |-> e] :
        e \in IF ethics_review_hypothesis(hypothesis).approved THEN BOOLEAN ELSE {FALSE}}

\* request bodies of POST /validate
ValidateInputs ==
    {[output |-> "metrics", score |-> 80, ethics_passed |-> e] : e \in BOOLEAN}

\* validate_experiment: p_value in percent; meets_criteria from fixed thresholds
ValidationResults ==
    {[data |-> [p_value |-> 1,  effect_size |-> 75], meets_criteria |-> TRUE],
     [data |-> [p_value |-> 1,  effect_size |-> 5],  meets_criteria |-> FALSE],
     [data |-> [p_value |-> 20, effect_size |-> 75], meets_criteria |-> FALSE]}

\* update_model: report and artifacts
LearningResults ==
    {[report |-> "summary", artifacts |-> <<"data.csv", "protocol.md">>]}

(***************************************************************************)
(* Outcomes of a handler: a returned body or a raised HTTPException.       *)
(***************************************************************************)
Null == [null |-> TRUE]

HTTPException(status_code, detail) == [status |-> status_code, detail |-> detail]

OK == [status |-> 200, detail |-> ""]

NoOutcome == [status |-> 0, detail |-> ""]

\* str(e) of an HTTPException built with keyword arguments: the empty string
\* where the class has no __str__ (args is empty), "<status>: <detail>" where
\* it has one; which one depends on the installed framework version
StrOfHTTPException(exc) ==
    {"", CASE exc.status = 400 -> "400: Results do not meet criteria"
           [] exc.status = 403 -> "403: Ethics gate failed"
           [] OTHER -> ""}

(***************************************************************************)
(* app/main.py: the stage endpoints called as functions.                   *)
(***************************************************************************)
\* approved_hyps = [h for h, check in zip(hyps, checked) if check.approved]
ApprovedHyps_unfiltered(hyps, checked) == hyps

RECURSIVE ApprovedHyps(_, _)
ApprovedHyps(hyps, checked) ==
    IF Len(hyps) = 0 \/ Len(checked) = 0
    THEN <<>>
    ELSE (IF checked[1].approved THEN <<hyps[1]>> ELSE <<>>)
         \o ApprovedHyps(Tail(hyps), Tail(checked))

\* hypothesize(entities, topic) when generate_hypotheses returns generated;
\* the verdict's fields are read by name, as check.approved does
hypothesize(generated) ==
    LET checked == [i \in 1..Len(generated) |-> ethics_review_hypothesis(generated[i])]
    IN  [hypotheses |-> ApprovedHyps(generated, checked), ethics |-> checked]

\* hyp = hyps[0]
SelectHypothesis_best(hyps) ==
    CHOOSE h \in {hyps[i] : i \in 1..Len(hyps)} :
        \A i \in 1..Len(hyps) : hyps[i].plausibility <= h.plausibility

SelectHypothesis(hyps) == hyps[1]

(***************************************************************************)
(* State of the server: one request is handled at a time.                  *)
(***************************************************************************)
VARIABLES
    pc,            \* position inside run_full_flow: the stage to call next
    topic,         \* argument of run_full_flow
    data,          \* locals of run_full_flow
    entities,
    generated,     \* the list generate_hypotheses returned inside hypothesize
    hyps,
    hyp,
    sim,
    val,
    learn_result,
    result,        \* the dict run_full_flow returns
    calls,         \* stage invocations of this run, in order: stage, arg, ret, raised
    outcome,       \* what the handler answered: 200 or the HTTPException raised
    cause,         \* which branch of the handler ended the run
    last,          \* cause and outcome of the previous full-flow request
    ep,            \* the last exchange of a stand-alone stage endpoint
    runs           \* the frames of model_knowledge calls running in worker threads

(***************************************************************************)
(* State of the browser: the React application of frontend/src with its    *)
(* axios instance, and the page of frontend/pages/index.tsx.               *)
(***************************************************************************)
VARIABLES
    localStorage,  \* the item 'token' of window.localStorage, null when absent
    defaults,      \* instance.defaults.headers.common of the axios instance
    window,        \* window.location: the page shown and the href assigned, if any
    inflight,      \* the request the axios instance is handling, Null when none
    login,         \* state of the Login component and of its submit handler
    home           \* state of the Home component and of its handleRunFlow

vars == <<pc, topic, data, entities, generated, hyps, hyp, sim, val,
          learn_result, result, calls, outcome, cause, last, ep, runs,
          localStorage, defaults, window, inflight, login, home>>

frontend == <<localStorage, defaults, window, inflight, login, home>>

backend == <<pc, topic, data, entities, generated, hyps, hyp, sim, val,
             learn_result, result, calls, outcome, cause, last, ep>>

locals == <<data, entities, generated, hyps, hyp, sim, val, learn_result, result>>

Stages == <<"ingestion", "modeling", "hypothesis", "simulation", "validation", "learning">>

Raised(msg) == [raised |-> msg]

NoLast == [cause |-> "none", outcome |-> NoOutcome]

\* the worker threads that serve requests side by side
Runs == {"a", "b"}

\* a thread that runs no call
IdleRun == [pc |-> "idle", data_list |-> <<>>, n |-> 0, st |-> Null, returned |-> Null]

\* the JavaScript null where a string is held
null == "null"

\* useState(false), useState(false), useState(null); no timer set
LoginMounted ==
    [pc |-> "idle", loading |-> FALSE, isWakingUp |-> FALSE, err |-> null,
     wakeUpTimer |-> "none"]

\* useState(''), useState(null), useState(false); no request sent
HomeMounted ==
    [topic |-> "", results |-> null, loading |-> FALSE, pending |-> <<>>, settled |-> "none"]

Init ==
    /\ pc = "idle"
    /\ topic = ""
    /\ data = <<>>
    /\ entities = <<>>
    /\ generated = <<>>
    /\ hyps = <<>>
    /\ hyp = Null
    /\ sim = Null
    /\ val = Null
    /\ learn_result = Null
    /\ result = Null
    /\ calls = <<>>
    /\ outcome = NoOutcome
    /\ cause = "none"
    /\ last = NoLast
    /\ ep = Null
    /\ runs = [r \in Runs |-> IdleRun]
    /\ localStorage = [token |-> null]
    /\ defaults = [Authorization |-> null]
    /\ window = [href |-> "/login", assigned |-> null]
    /\ inflight = Null
    /\ login = LoginMounted
    /\ home = HomeMounted

(***************************************************************************)
(* run_full_flow, statement by statement.                                  *)
(***************************************************************************)
\* the stage that follows one that returned and passed its gate
NextStage_skip(stage) ==
    CASE stage = "ingestion"  -> "modeling"
      [] stage = "modeling"   -> "simulation"
      [] stage = "hypothesis" -> "simulation"
      [] stage = "simulation" -> "validation"
      [] stage = "validation" -> "learning"
      [] OTHER                -> "done"

NextStage(stage) ==
    CASE stage = "ingestion"  -> "modeling"
      [] stage = "modeling"   -> "hypothesis"
      [] stage = "hypothesis" -> "simulation"
      [] stage = "simulation" -> "validation"
      [] stage = "validation" -> "learning"
      [] OTHER                -> "done"

\* an exception leaves the handler: except HTTPException: raise / except Exception
OnRaise_retry(stage) == stage

OnRaise(stage) == "done"

\* if not hyps
NoApproved_never(approved_hyps) == FALSE

NoApproved(approved_hyps) == Len(approved_hyps) = 0

\* if not sim.ethics_passed
EthicsFailed_never(s) == FALSE

EthicsFailed(s) == ~s.ethics_passed

\* if not result.meets_criteria
CriteriaFailed(v) == ~v.meets_criteria

\* the run ends with a raised HTTPException
Abort(stage, exc, why) ==
    /\ outcome' = exc
    /\ cause' = why
    /\ pc' = OnRaise(stage)

\* the stage returned and its gate passed
Continue(stage) ==
    /\ pc' = NextStage(stage)
    /\ UNCHANGED <<outcome, cause>>

\* one more stage invocation: what it was given, what it returned or that it raised
Log(stage, arg, ret, raised) ==
    calls' = Append(calls, [stage |-> stage, arg |-> arg, ret |-> ret, raised |-> raised])

RunFullFlow(t) ==
    /\ pc = "idle"
    /\ UNCHANGED <<runs, frontend>>
    /\ pc' = "ingestion"
    /\ topic' = t
    /\ ep' = Null
    /\ UNCHANGED <<locals, calls, outcome, cause, last>>

\* data = ingest_and_curate(IngestionInput(topic=topic))
Stage1Ingestion ==
    /\ pc = "ingestion"
    /\ UNCHANGED <<runs, frontend>>
    /\ \/ \E m \in ExcMsgs :
            /\ Log("ingestion", topic, Raised(m), TRUE)
            /\ Abort("ingestion", HTTPException(500, m), "fault")
            /\ UNCHANGED data
       \/ \E d \in IngestResults :
            /\ Log("ingestion", topic, d, FALSE)
            /\ data' = d
            /\ Continue("ingestion")
    /\ UNCHANGED <<topic, entities, generated, hyps, hyp, sim, val, learn_result, result, last, ep>>

\* entities = model_knowledge(data)
Stage2Modeling ==
    /\ pc = "modeling"
    /\ UNCHANGED <<runs, frontend>>
    /\ \/ \E m \in ExcMsgs :
            /\ Log("modeling", data, Raised(m), TRUE)
            /\ Abort("modeling", HTTPException(500, m), "fault")
            /\ UNCHANGED entities
       \/ \E e \in ModelResults(data) :
            /\ Log("modeling", data, e, FALSE)
            /\ entities' = e
            /\ Continue("modeling")
    /\ UNCHANGED <<topic, data, generated, hyps, hyp, sim, val, learn_result, result, last, ep>>

\* hyps_response = hypothesize(entities, topic); the empty check; hyp = hyps[0]
Stage3Hypothesis ==
    /\ pc = "hypothesis"
    /\ UNCHANGED <<runs, frontend>>
    /\ \/ \E m \in ExcMsgs :
            /\ Log("hypothesis", entities, Raised(m), TRUE)
            /\ Abort("hypothesis", HTTPException(500, m), "fault")
            /\ UNCHANGED <<generated, hyps, hyp>>
       \/ \E g \in GenerateResults :
            LET hyps_response == hypothesize(g) IN
            /\ Log("hypothesis", entities, hyps_response, FALSE)
            /\ generated' = g
            /\ hyps' = hyps_response.hypotheses
            /\ IF NoApproved(hyps_response.hypotheses)
               THEN /\ Abort("hypothesis", HTTPException(403, "No approved hypotheses"), "policy")
                    /\ UNCHANGED hyp
               ELSE IF Len(hyps_response.hypotheses) = 0
               THEN \* hyps[0] raises IndexError
                    /\ Abort("hypothesis", HTTPException(500, "list index out of range"), "fault")
                    /\ UNCHANGED hyp
               ELSE /\ hyp' = SelectHypothesis(hyps_response.hypotheses)
                    /\ Continue("hypothesis")
    /\ UNCHANGED <<topic, data, entities, sim, val, learn_result, result, last, ep>>

\* sim = run_simulation(hyp); the ethics check
Stage4Simulation ==
    /\ pc = "simulation"
    /\ UNCHANGED <<runs, frontend>>
    /\ \/ \E m \in ExcMsgs :
            /\ Log("simulation", hyp, Raised(m), TRUE)
            /\ Abort("simulation", HTTPException(500, m), "fault")
            /\ UNCHANGED sim
       \/ \E s \in SimulationResults(hyp) :
            /\ Log("simulation", hyp, s, FALSE)
            /\ sim' = s
            /\ IF EthicsFailed(s)
               THEN Abort("simulation", HTTPException(403, "Simulation ethics failed"), "policy")
               ELSE Continue("simulation")
    /\ UNCHANGED <<topic, data, entities, generated, hyps, hyp, val, learn_result, result, last, ep>>

\* val = validate(sim): the /validate handler called as a function
Stage5Validation ==
    /\ pc = "validation"
    /\ UNCHANGED <<runs, frontend>>
    /\ \/ \E m \in ExcMsgs :
            /\ Log("validation", sim, Raised(m), TRUE)
            /\ Abort("validation", HTTPException(500, m), "fault")
            /\ UNCHANGED val
       \/ \E v \in ValidationResults :
            /\ Log("validation", sim, v, FALSE)
            /\ IF CriteriaFailed(v)
               THEN \* raise HTTPException(400) inside try, caught by except Exception
                    /\ \E d \in StrOfHTTPException(HTTPException(400, "Results do not meet criteria")) :
                          Abort("validation", HTTPException(500, d), "criteria")
                    /\ UNCHANGED val
               ELSE /\ val' = v
                    /\ Continue("validation")
    /\ UNCHANGED <<topic, data, entities, generated, hyps, hyp, sim, learn_result, result, last, ep>>

\* learn_result = update_model(val); return the composite
Stage6Learning ==
    /\ pc = "learning"
    /\ UNCHANGED <<runs, frontend>>
    /\ \/ \E m \in ExcMsgs :
            /\ Log("learning", val, Raised(m), TRUE)
            /\ Abort("learning", HTTPException(500, m), "fault")
            /\ UNCHANGED <<learn_result, result>>
       \/ \E l \in LearningResults :
            /\ Log("learning", val, l, FALSE)
            /\ learn_result' = l
            /\ result' = [data |-> data, entities |-> entities, hypotheses |-> hyps,
                          simulation |-> sim, validation |-> val, learning |-> l]
            /\ outcome' = OK
            /\ cause' = "success"
            /\ pc' = NextStage("learning")
    /\ UNCHANGED <<topic, data, entities, generated, hyps, hyp, sim, val, last, ep>>

\* the response is sent; the handler's frame is gone
Respond ==
    /\ pc = "done"
    /\ UNCHANGED <<runs, frontend>>
    /\ pc' = "idle"
    /\ last' = [cause |-> cause, outcome |-> outcome]
    /\ topic' = ""
    /\ data' = <<>>
    /\ entities' = <<>>
    /\ generated' = <<>>
    /\ hyps' = <<>>
    /\ hyp' = Null
    /\ sim' = Null
    /\ val' = Null
    /\ learn_result' = Null
    /\ result' = Null
    /\ calls' = <<>>
    /\ outcome' = NoOutcome
    /\ cause' = "none"
    /\ UNCHANGED ep

(***************************************************************************)
(* Stand-alone stage endpoints.                                            *)
(***************************************************************************)
Exchange(endpoint, request, ethics, invoked, response, body) ==
    [endpoint |-> endpoint, request |-> request, ethics |-> ethics,
     invoked |-> invoked, response |-> response, body |-> body]

\* POST /simulate
simulate(hypothesis) ==
    /\ pc = "idle"
    /\ UNCHANGED <<runs, frontend>>
    /\ LET ethics == ethics_review_hypothesis(hypothesis) IN
       IF ~ethics.approved
       THEN \* raise HTTPException(403) inside try, caught by except Exception
            \E d \in StrOfHTTPException(HTTPException(403, "Ethics gate failed")) :
               ep' = Exchange("simulate", hypothesis, ethics, <<>>,
                              HTTPException(500, d), Null)
       ELSE \/ \E m \in ExcMsgs :
                 ep' = Exchange("simulate", hypothesis, ethics, <<"run_simulation">>,
                                HTTPException(500, m), Null)
            \/ \E s \in SimulationResults(hypothesis) :
                 ep' = Exchange("simulate", hypothesis, ethics, <<"run_simulation">>, OK, s)
    /\ UNCHANGED <<pc, topic, locals, calls, outcome, cause, last>>

\* POST /validate
validate(sim_result) ==
    /\ pc = "idle"
    /\ UNCHANGED <<runs, frontend>>
    /\ \/ \E m \in ExcMsgs :
            ep' = Exchange("validate", sim_result, Null, <<"validate_experiment">>,
                           HTTPException(500, m), Null)
       \/ \E v \in ValidationResults :
            IF CriteriaFailed(v)
            THEN \E d \in StrOfHTTPException(HTTPException(400, "Results do not meet criteria")) :
                    ep' = Exchange("validate", sim_result, Null, <<"validate_experiment">>,
                                   HTTPException(500, d), Null)
            ELSE ep' = Exchange("validate", sim_result, Null, <<"validate_experiment">>, OK, v)
    /\ UNCHANGED <<pc, topic, locals, calls, outcome, cause, last>>

Next ==
    \/ \E t \in Topics : RunFullFlow(t)
    \/ Stage1Ingestion
    \/ Stage2Modeling
    \/ Stage3Hypothesis
    \/ Stage4Simulation
    \/ Stage5Validation
    \/ Stage6Learning
    \/ Respond
    \/ \E h \in SimulateInputs : simulate(h)
    \/ \E s \in ValidateInputs : validate(s)

Spec == Init /\ [][Next]_vars

\* a handler that has started runs to its return or raise
Step ==
    \/ Stage1Ingestion
    \/ Stage2Modeling
    \/ Stage3Hypothesis
    \/ Stage4Simulation
    \/ Stage5Validation
    \/ Stage6Learning

FairSpec == Spec /\ WF_vars(Step)


(***************************************************************************)
(* Regular-expression helpers: character classes and \b.                   *)
(***************************************************************************)
Letters == {UpperChars[i] : i \in 1..Len(UpperChars)} \cup {LowerChars[i] : i \in 1..Len(LowerChars)}

Digits == {"0", "1", "2", "3", "4", "5", "6", "7", "8", "9"}

\* \w
IsWordChar(c) == c \in Letters \cup Digits \cup {"_"}

\* \s
IsSpace(c) == c \in {" ", "\t", "\n", "\r"}

\* the character at 1-based index i, or no character outside the text
At(text, i) == IF i \in 1..Len(text) THEN text[i] ELSE ""

\* \b between the characters i-1 and i
WordBoundaryAt(text, i) == IsWordChar(At(text, i - 1)) # IsWordChar(At(text, i))

\* every character of text[from..to] belongs to class
AllIn(text, from, to, class) == \A i \in from..to : At(text, i) \in class

(***************************************************************************)
(* app/services/ethics.py: check_data_quality.                             *)
(***************************************************************************)
\* r'\b[A-Z][a-z]+ [A-Z][a-z]+\b' under re.IGNORECASE
NameFound(content) ==
    \E s \in 1..Len(content) :
       /\ WordBoundaryAt(content, s)
       /\ \E e1 \in (s + 1)..Len(content) :
             /\ AllIn(content, s, e1, Letters)
             /\ At(content, e1 + 1) = " "
             /\ \E e2 \in (e1 + 3)..Len(content) :
                   /\ AllIn(content, e1 + 2, e2, Letters)
                   /\ WordBoundaryAt(content, e2 + 1)

\* r'\d{3}-\d{2}-\d{4}'
SsnFound(content) ==
    \E s \in 1..Len(content) :
       /\ s + 10 <= Len(content)
       /\ AllIn(content, s, s + 2, Digits)
       /\ At(content, s + 3) = "-"
       /\ AllIn(content, s + 4, s + 5, Digits)
       /\ At(content, s + 6) = "-"
       /\ AllIn(content, s + 7, s + 10, Digits)

\* r'\b[A-Za-z0-9._%+-]+@[A-Za-z0-9.-]+\.[A-Z|a-z]{2,}\b'
EmailFound(content) ==
    \E a \in 2..Len(content) :
       /\ At(content, a) = "@"
       /\ \E s \in 1..(a - 1) :
             /\ WordBoundaryAt(content, s)
             /\ AllIn(content, s, a - 1, Letters \cup Digits \cup {".", "_", "%", "+", "-"})
       /\ \E d \in (a + 2)..Len(content) :
             /\ At(content, d) = "."
             /\ AllIn(content, a + 1, d - 1, Letters \cup Digits \cup {".", "-"})
             /\ \E e \in (d + 2)..Len(content) :
                   /\ AllIn(content, d + 1, e, Letters \cup {"|"})
                   /\ WordBoundaryAt(content, e + 1)

\* r'\b\d{3}-\d{3}-\d{4}\b'
PhoneFound(content) ==
    \E s \in 1..Len(content) :
       /\ s + 11 <= Len(content)
       /\ WordBoundaryAt(content, s)
       /\ AllIn(content, s, s + 2, Digits)
       /\ At(content, s + 3) = "-"
       /\ AllIn(content, s + 4, s + 6, Digits)
       /\ At(content, s + 7) = "-"
       /\ AllIn(content, s + 8, s + 11, Digits)
       /\ WordBoundaryAt(content, s + 12)

\* r'\b\d{16}\b'
CardFound(content) ==
    \E s \in 1..Len(content) :
       /\ s + 15 <= Len(content)
       /\ WordBoundaryAt(content, s)
       /\ AllIn(content, s, s + 15, Digits)
       /\ WordBoundaryAt(content, s + 16)

\* Check 1: any of PII_PATTERNS matches
PiiFound(content) ==
    \/ NameFound(content)
    \/ SsnFound(content)
    \/ EmailFound(content)
    \/ PhoneFound(content)
    \/ CardFound(content)

\* Check 2: a bias keyword in content.lower()
BiasFound(content) == ContainsAny(Lower(content), BIAS_KEYWORDS)

\* Check 3: a safety keyword in content.lower()
SafetyFound(content) == ContainsAny(Lower(content), SAFETY_KEYWORDS)

\* Check 4: provenance missing or "unknown", or license missing or empty
ProvenanceDefect(metadata) ==
    "provenance" \notin DOMAIN metadata \/ metadata["provenance"] = "unknown"

LicenseDefect(metadata) ==
    "license" \notin DOMAIN metadata \/ metadata["license"] = ""

\* the provenance check adds one issue; the variant adds one per defect
ProvenancePenalty_each(metadata) ==
    (IF ProvenanceDefect(metadata) THEN 1 ELSE 0) + (IF LicenseDefect(metadata) THEN 1 ELSE 0)

ProvenancePenalty(metadata) ==
    IF ProvenanceDefect(metadata) \/ LicenseDefect(metadata) THEN 1 ELSE 0

total_checks == 4

Max2(a, b) == IF a >= b THEN a ELSE b

Min2(a, b) == IF a <= b THEN a ELSE b

\* quality_score = max(0.0, 1.0 - issues / total_checks), in percent; the
\* variant divides by the number of probes counted one by one
QualityScore_fifths(issues) == Max2(0, 100 - (100 * issues) \div (total_checks + 1))

QualityScore(issues) == Max2(0, 100 - (100 * issues) \div total_checks)

check_data_quality(content, metadata) ==
    LET issues == (IF PiiFound(content) THEN 1 ELSE 0)
                  + (IF BiasFound(content) THEN 1 ELSE 0)
                  + (IF SafetyFound(content) THEN 1 ELSE 0)
                  + ProvenancePenalty(metadata)
    IN  QualityScore(issues)

\* contents and metadata the function is applied to
QualityContents ==
    { <<>>, <<"d", "a", "t", "a">>, <<"J", "a", "n", "e", " ", "S", "m", "i", "t", "h">>, <<"T", "o", "x", "i", "c">>, <<"b", "i", "a", "s", "e", "d">>, <<"x", "1", " ", "y", "2">>,
      <<"1", "2", "3", "-", "4", "5", "-", "6", "7", "8", "9">>, <<"a", "@", "b", ".", "c", "o">>, <<"5", "5", "5", "-", "1", "2", "3", "-", "4", "5", "6", "7">>, <<"1", "2", "3", "4", "5", "6", "7", "8", "1", "2", "3", "4", "5", "6", "7", "8">>,
      <<"h", "a", "r", "m", "f", "u", "l", " ", "w", "e", "a", "p", "o", "n">> }

QualityMetadata ==
    { p @@ l : p \in {EmptyDict, [provenance |-> "unknown"], [provenance |-> "Unknown"],
                      [provenance |-> "arXiv"]},
               l \in {EmptyDict, [license |-> ""], [license |-> "CC-BY-4.0"]} }

\* quality_score = check_data_quality(content, metadata), one call at a time
CheckDataQuality(content, metadata) ==
    /\ pc = "idle"
    /\ UNCHANGED <<runs, frontend>>
    /\ ep = Null
    /\ ep' = Exchange("check_data_quality", [content |-> content, metadata |-> metadata],
                      Null, <<>>, OK, check_data_quality(content, metadata))
    /\ UNCHANGED <<pc, topic, locals, calls, outcome, cause, last>>

\* the caller has taken the returned value
TakeResult ==
    /\ pc = "idle"
    /\ UNCHANGED <<runs, frontend>>
    /\ ep # Null
    /\ ep' = Null
    /\ UNCHANGED <<pc, topic, locals, calls, outcome, cause, last>>

NextQuality ==
    \/ \E c \in QualityContents : \E md \in QualityMetadata : CheckDataQuality(c, md)
    \/ TakeResult

SpecQuality == Init /\ [][NextQuality]_vars

(***************************************************************************)
(* app/services/modeling.py: _extract_entities.                            *)
(* A pattern is a record; `kind` tells which of the three regular          *)
(* expressions it is.  Indices are 1-based, `end` is exclusive.            *)
(***************************************************************************)
MaxDocs == 3

IS_A == <<"I", "S", "_", "A">>

HAS_VALUE == <<"H", "A", "S", "_", "V", "A", "L", "U", "E">>

EntityPattern(words, type) ==
    [kind |-> "entity", words |-> words, relation |-> IS_A, type |-> type]

RelationshipPattern(verbs, relation) ==
    [kind |-> "relationship", words |-> verbs, relation |-> relation, type |-> <<>>]

\* r'\b(w1|w2|...)\b': TYPE, in the dict's order
entity_patterns ==
    << EntityPattern(<<<<"a", "l", "g", "o", "r", "i", "t", "h", "m">>, <<"m", "e", "t", "h", "o", "d">>, <<"t", "e", "c", "h", "n", "i", "q", "u", "e">>, <<"a", "p", "p", "r", "o", "a", "c", "h">>,
                       <<"p", "r", "o", "c", "e", "d", "u", "r", "e">>, <<"p", "r", "o", "t", "o", "c", "o", "l">>>>, <<"M", "E", "T", "H", "O", "D">>),
       EntityPattern(<<<<"m", "o", "d", "e", "l">>, <<"f", "r", "a", "m", "e", "w", "o", "r", "k">>, <<"s", "y", "s", "t", "e", "m">>, <<"a", "r", "c", "h", "i", "t", "e", "c", "t", "u", "r", "e">>,
                       <<"d", "e", "s", "i", "g", "n">>>>, <<"S", "Y", "S", "T", "E", "M">>),
       EntityPattern(<<<<"e", "x", "p", "e", "r", "i", "m", "e", "n", "t">>, <<"s", "t", "u", "d", "y">>, <<"a", "n", "a", "l", "y", "s", "i", "s">>, <<"e", "v", "a", "l", "u", "a", "t", "i", "o", "n">>,
                       <<"a", "s", "s", "e", "s", "s", "m", "e", "n", "t">>>>, <<"S", "T", "U", "D", "Y">>),
       EntityPattern(<<<<"m", "a", "t", "e", "r", "i", "a", "l">>, <<"s", "u", "b", "s", "t", "a", "n", "c", "e">>, <<"c", "o", "m", "p", "o", "u", "n", "d">>, <<"e", "l", "e", "m", "e", "n", "t">>,
                       <<"m", "o", "l", "e", "c", "u", "l", "e">>>>, <<"M", "A", "T", "E", "R", "I", "A", "L">>),
       EntityPattern(<<<<"q", "u", "a", "n", "t", "u", "m">>, <<"n", "e", "u", "r", "a", "l">>, <<"g", "e", "n", "e", "t", "i", "c">>, <<"m", "o", "l", "e", "c", "u", "l", "a", "r">>,
                       <<"a", "t", "o", "m", "i", "c">>>>, <<"P", "R", "O", "P", "E", "R", "T", "Y">>),
       EntityPattern(<<<<"a", "c", "c", "u", "r", "a", "c", "y">>, <<"p", "r", "e", "c", "i", "s", "i", "o", "n">>, <<"r", "e", "c", "a", "l", "l">>, <<"e", "f", "f", "i", "c", "i", "e", "n", "c", "y">>,
                       <<"p", "e", "r", "f", "o", "r", "m", "a", "n", "c", "e">>, <<"s", "p", "e", "e", "d">>>>, <<"M", "E", "T", "R", "I", "C">>),
       EntityPattern(<<<<"i", "m", "p", "r", "o", "v", "e", "m", "e", "n", "t">>, <<"e", "n", "h", "a", "n", "c", "e", "m", "e", "n", "t">>, <<"o", "p", "t", "i", "m", "i", "z", "a", "t", "i", "o", "n">>,
                       <<"r", "e", "d", "u", "c", "t", "i", "o", "n">>>>, <<"O", "U", "T", "C", "O", "M", "E">>),
       EntityPattern(<<<<"m", "a", "c", "h", "i", "n", "e", " ", "l", "e", "a", "r", "n", "i", "n", "g">>, <<"a", "r", "t", "i", "f", "i", "c", "i", "a", "l", " ", "i", "n", "t", "e", "l", "l", "i", "g", "e", "n", "c", "e">>,
                       <<"q", "u", "a", "n", "t", "u", "m", " ", "c", "o", "m", "p", "u", "t", "i", "n", "g">>, <<"b", "i", "o", "t", "e", "c", "h", "n", "o", "l", "o", "g", "y">>>>, <<"D", "O", "M", "A", "I", "N">>),
       EntityPattern(<<<<"d", "e", "e", "p", " ", "l", "e", "a", "r", "n", "i", "n", "g">>, <<"r", "e", "i", "n", "f", "o", "r", "c", "e", "m", "e", "n", "t", " ", "l", "e", "a", "r", "n", "i", "n", "g">>,
                       <<"s", "u", "p", "e", "r", "v", "i", "s", "e", "d", " ", "l", "e", "a", "r", "n", "i", "n", "g">>>>, <<"S", "U", "B", "D", "O", "M", "A", "I", "N">>) >>

\* r'(\w+)\s+(v1|v2|...)\s+(\w+)': RELATION, in the dict's order
relationship_patterns ==
    << RelationshipPattern(<<<<"i", "m", "p", "r", "o", "v", "e", "s">>, <<"e", "n", "h", "a", "n", "c", "e", "s">>, <<"i", "n", "c", "r", "e", "a", "s", "e", "s">>, <<"b", "o", "o", "s", "t", "s">>>>,
                           <<"I", "M", "P", "R", "O", "V", "E", "S">>),
       RelationshipPattern(<<<<"r", "e", "d", "u", "c", "e", "s">>, <<"d", "e", "c", "r", "e", "a", "s", "e", "s">>, <<"m", "i", "n", "i", "m", "i", "z", "e", "s">>, <<"l", "o", "w", "e", "r", "s">>>>,
                           <<"R", "E", "D", "U", "C", "E", "S">>),
       RelationshipPattern(<<<<"e", "n", "a", "b", "l", "e", "s">>, <<"a", "l", "l", "o", "w", "s">>, <<"f", "a", "c", "i", "l", "i", "t", "a", "t", "e", "s">>, <<"s", "u", "p", "p", "o", "r", "t", "s">>>>,
                           <<"E", "N", "A", "B", "L", "E", "S">>),
       RelationshipPattern(<<<<"r", "e", "q", "u", "i", "r", "e", "s">>, <<"n", "e", "e", "d", "s">>, <<"d", "e", "p", "e", "n", "d", "s", " ", "o", "n">>, <<"r", "e", "l", "i", "e", "s", " ", "o", "n">>>>,
                           <<"R", "E", "Q", "U", "I", "R", "E", "S">>),
       RelationshipPattern(<<<<"i", "s", " ", "b", "a", "s", "e", "d", " ", "o", "n">>, <<"b", "u", "i", "l", "d", "s", " ", "o", "n">>, <<"e", "x", "t", "e", "n", "d", "s">>,
                             <<"d", "e", "r", "i", "v", "e", "s", " ", "f", "r", "o", "m">>>>, <<"B", "A", "S", "E", "D", "_", "O", "N">>) >>

\* r'(\w+)\s+(?:by|of)\s+(\d+(?:\.\d+)?)\s*(%|percent|times|fold)'
numerical_pattern ==
    [kind |-> "numerical", words |-> <<<<"b", "y">>, <<"o", "f">>>>, relation |-> HAS_VALUE,
     type |-> <<>>]

NumericalUnits == <<<<"%">>, <<"p", "e", "r", "c", "e", "n", "t">>, <<"t", "i", "m", "e", "s">>, <<"f", "o", "l", "d">>>>

\* the words the entity loop skips
CommonWords ==
    {<<"t", "h", "e">>, <<"a", "n", "d">>, <<"o", "r">>, <<"b", "u", "t">>, <<"i", "n">>, <<"o", "n">>, <<"a", "t">>, <<"t", "o">>, <<"f", "o", "r">>}

\* the window of the context: content[start-50 : end+50]
ContextWindow == 50

Least(S) == CHOOSE x \in S : \A y \in S : x <= y

\* the element of a one-element set: {e : x \in {v}} is `x = v; e`, the value
\* of a local variable computed once
TheOne(S) == CHOOSE x \in S : TRUE

\* the index after the run of \w characters that starts at i (i itself if none)
RECURSIVE WordEnd(_, _)
WordEnd(text, i) == IF IsWordChar(At(text, i)) THEN WordEnd(text, i + 1) ELSE i

\* the index after the run of \s characters that starts at i
RECURSIVE SpaceEnd(_, _)
SpaceEnd(text, i) == IF IsSpace(At(text, i)) THEN SpaceEnd(text, i + 1) ELSE i

\* the index after the run of \d characters that starts at i
RECURSIVE DigitEnd(_, _)
DigitEnd(text, i) == IF At(text, i) \in Digits THEN DigitEnd(text, i + 1) ELSE i

\* the alternatives (by index) that occur in text at index i
AltsAt(text, alts, i) ==
    {k \in 1..Len(alts) :
        /\ i + Len(alts[k]) - 1 <= Len(text)
        /\ MatchAt(text, alts[k], i)}

\* a match of one regular expression that starts exactly at index i:
\* <<>> if there is none, else one record of the groups the code reads
Match(start, end, entity, target) ==
    <<[start |-> start, end |-> end, entity |-> entity, target |-> target]>>

EntityMatchAt(text, pat, i) ==
    LET ks == {k \in AltsAt(text, pat.words, i) :
                  WordBoundaryAt(text, i + Len(pat.words[k]))}
    IN  IF WordBoundaryAt(text, i) /\ ks # {}
        THEN LET w == pat.words[Least(ks)]
             IN  Match(i, i + Len(w), w, pat.type)
        ELSE <<>>

\* (\w+) and \s+ are greedy and what follows them cannot start inside their
\* run, so each takes its whole run
RelationshipMatchAt(text, pat, i) ==
    LET e1 == WordEnd(text, i)
        v  == SpaceEnd(text, e1)
        ks == {k \in AltsAt(text, pat.words, v) :
                  LET a == v + Len(pat.words[k])
                      o == SpaceEnd(text, a)
                  IN  o > a /\ WordEnd(text, o) > o}
    IN  IF e1 > i /\ v > e1 /\ ks # {}
        THEN LET o == SpaceEnd(text, v + Len(pat.words[Least(ks)]))
             IN  Match(i, WordEnd(text, o), SubSeq(text, i, e1 - 1),
                       SubSeq(text, o, WordEnd(text, o) - 1))
        ELSE <<>>

NumericalMatchAt(text, pat, i) ==
    LET e1 == WordEnd(text, i)
        p  == SpaceEnd(text, e1)
        ks == AltsAt(text, pat.words, p)
        a  == p + 2
        d  == SpaceEnd(text, a)
        de == DigitEnd(text, d)
        fe == IF At(text, de) = "." /\ DigitEnd(text, de + 1) > de + 1
              THEN DigitEnd(text, de + 1)
              ELSE de
        u  == SpaceEnd(text, fe)
        us == AltsAt(text, NumericalUnits, u)
    IN  IF e1 > i /\ p > e1 /\ ks # {} /\ d > a /\ de > d /\ us # {}
        THEN LET unit == NumericalUnits[Least(us)]
             IN  Match(i, u + Len(unit), SubSeq(text, i, e1 - 1),
                       SubSeq(text, d, fe - 1) \o unit)
        ELSE <<>>

TryMatch(text, pat, i) ==
    CASE pat.kind = "entity"       -> EntityMatchAt(text, pat, i)
      [] pat.kind = "relationship" -> RelationshipMatchAt(text, pat, i)
      [] pat.kind = "numerical"    -> NumericalMatchAt(text, pat, i)

\* content[max(0, match.start()-50) : match.end()+50]
Context(content, start, end) ==
    SubSeq(content, Max2(1, start - ContextWindow),
                    Min2(Len(content), end - 1 + ContextWindow))

\* re.finditer(pattern, content_lower): the leftmost match from `from` on,
\* then the matches after its end; one dict per match
RECURSIVE finditer(_, _, _, _)
finditer(content, content_lower, pat, from) ==
    TheOne({
        IF starts = {}
        THEN <<>>
        ELSE TheOne({
                 <<[entity   |-> m.entity,
                    relation |-> pat.relation,
                    target   |-> m.target,
                    position |-> m.start - 1,
                    context  |-> Context(content, m.start, m.end)]>>
                 \o finditer(content, content_lower, pat, m.end)
                 : m \in {TryMatch(content_lower, pat, Least(starts))[1]} })
        : starts \in {{i \in from..Len(content_lower) :
                          TryMatch(content_lower, pat, i) # <<>>}} })

\* the matches of the patterns pats[1..n], pattern after pattern
RECURSIVE ExtractWith(_, _, _, _)
ExtractWith(content, content_lower, pats, n) ==
    IF n = 0
    THEN <<>>
    ELSE ExtractWith(content, content_lower, pats, n - 1)
         \o finditer(content, content_lower, pats[n], 1)

NotCommon(entity_info) == entity_info.entity \notin CommonWords

_extract_entities(content) ==
    TheOne({
        SelectSeq(ExtractWith(content, content_lower, entity_patterns,
                              Len(entity_patterns)), NotCommon)
        \o ExtractWith(content, content_lower, relationship_patterns,
                       Len(relationship_patterns))
        \o finditer(content, content_lower, numerical_pattern, 1)
        : content_lower \in {Lower(content)} })

(***************************************************************************)
(* app/services/modeling.py: _calculate_evidence_score.                    *)
(* Scores are exact numbers of percent, kept as reduced fractions n/d.     *)
(***************************************************************************)
RECURSIVE GCD(_, _)
GCD(a, b) == IF b = 0 THEN a ELSE GCD(b, a % b)

Fraction(n, d) == LET g == GCD(n, d) IN [n |-> n \div g, d |-> d \div g]

\* a <= b and a < b on fractions
Leq(a, b) == a.n * b.d <= b.n * a.d

Less(a, b) == a.n * b.d < b.n * a.d

relevance_keywords ==
    <<<<"s", "i", "g", "n", "i", "f", "i", "c", "a", "n", "t">>, <<"i", "m", "p", "o", "r", "t", "a", "n", "t">>, <<"n", "o", "v", "e", "l">>, <<"i", "n", "n", "o", "v", "a", "t", "i", "v", "e">>, <<"e", "f", "f", "e", "c", "t", "i", "v", "e">>,
      <<"d", "e", "m", "o", "n", "s", "t", "r", "a", "t", "e", "s">>, <<"s", "h", "o", "w", "s">>, <<"p", "r", "o", "v", "e", "s">>, <<"i", "n", "d", "i", "c", "a", "t", "e", "s">>, <<"s", "u", "g", "g", "e", "s", "t", "s">>>>

strong_relations == {<<"I", "M", "P", "R", "O", "V", "E", "S">>, <<"E", "N", "A", "B", "L", "E", "S">>, <<"B", "A", "S", "E", "D", "_", "O", "N">>, HAS_VALUE}

frequency_bonus_uncapped(frequency) == frequency * 5

\* min(0.2, frequency * 0.05), in percent
frequency_bonus(frequency) == Min2(20, frequency * 5)

\* 0.1 for every keyword that occurs in context.lower(), at most 0.3; in percent
relevance_score(context) ==
    TheOne({Min2(30, 10 * Cardinality({k \in 1..Len(relevance_keywords) :
                                         Contains(context_lower, relevance_keywords[k])}))
            : context_lower \in {Lower(context)} })

\* 0.1 if the relation is one of strong_relations, in percent
relation_bonus(relation) == IF relation \in strong_relations THEN 10 ELSE 0

\* max(0.0, 0.1 * (1 - position / len(content))), in percent times len
position_bonus(position, len) == Max2(0, 10 * (len - position))

\* every term is multiplied by len(content), the denominator of position_bonus
_calculate_evidence_score(entity_info, content, quality_score, frequency) ==
    LET len         == Len(content)
        base_score  == quality_score
        final_score == (base_score + frequency_bonus(frequency)
                        + relevance_score(entity_info.context)
                        + relation_bonus(entity_info.relation)) * len
                       + position_bonus(entity_info.position, len)
    IN  Fraction(Min2(100 * len, Max2(0, final_score)), len)

(***************************************************************************)
(* app/services/modeling.py: model_knowledge.                              *)
(***************************************************************************)
\* the confidence an entity must exceed, in percent
Threshold == [n |-> 60, d |-> 1]

KnowledgeEntity(entity, relation, evidence_score) ==
    [entity |-> entity, relation |-> relation, evidence_score |-> evidence_score]

\* f"{entity}_{relation}"
EntityKey(entity, relation) == entity \o <<"_">> \o relation

\* the entry _update_knowledge_graph prints
GraphEntry(entity, metadata) ==
    [entity         |-> entity.entity,
     relation       |-> entity.relation,
     evidence_score |-> entity.evidence_score,
     source         |-> Get(metadata, "title", "Unknown"),
     provenance     |-> Get(metadata, "provenance", "Unknown")]

\* a candidate as the loop scored it: the entity with the arguments of
\* _calculate_evidence_score
Candidate(knowledge_entity, entity_info, data_item, frequency) ==
    [entity         |-> knowledge_entity.entity,
     relation       |-> knowledge_entity.relation,
     evidence_score |-> knowledge_entity.evidence_score,
     position       |-> entity_info.position,
     context        |-> entity_info.context,
     len            |-> Len(data_item.content),
     quality_score  |-> data_item.quality_score,
     frequency      |-> frequency]

Admit_atThreshold(evidence_score) == Leq(Threshold, evidence_score)

\* if evidence_score > 0.6
Admit(evidence_score) == Less(Threshold, evidence_score)

\* one iteration of the inner loop; st holds the locals entities and
\* entity_frequency and the entries printed so far
ModelEntity(st, entity_info, data_item) ==
    LET entity_key == EntityKey(entity_info.entity, entity_info.relation)
        frequency  == Get(st.entity_frequency, entity_key, 0) + 1
    IN  TheOne({
            LET knowledge_entity ==
                    KnowledgeEntity(entity_info.entity, entity_info.relation, evidence_score)
            IN  [entity_frequency |-> (entity_key :> frequency) @@ st.entity_frequency,
                 scored   |-> Append(st.scored,
                                     Candidate(knowledge_entity, entity_info, data_item,
                                               frequency)),
                 entities |-> IF Admit(evidence_score)
                              THEN Append(st.entities, knowledge_entity)
                              ELSE st.entities,
                 graph    |-> IF Admit(evidence_score)
                              THEN Append(st.graph,
                                          GraphEntry(knowledge_entity, data_item.metadata))
                              ELSE st.graph]
            : evidence_score \in {_calculate_evidence_score(
                                      entity_info, data_item.content,
                                      data_item.quality_score, frequency)} })

\* the inner loop over extracted_entities[1..n]
RECURSIVE ModelData(_, _, _, _)
ModelData(st, extracted_entities, n, data_item) ==
    IF n = 0
    THEN st
    ELSE TheOne({ModelEntity(before, extracted_entities[n], data_item)
                 : before \in {ModelData(st, extracted_entities, n - 1, data_item)}})

\* the outer loop over data_list[1..n]
RECURSIVE ModelLoop(_, _)
ModelLoop(data_list, n) ==
    IF n = 0
    THEN [entity_frequency |-> EmptyDict, scored |-> <<>>, entities |-> <<>>, graph |-> <<>>]
    ELSE TheOne({ModelData(st, extracted_entities, Len(extracted_entities), data_list[n])
                 : st \in {ModelLoop(data_list, n - 1)},
                   extracted_entities \in {_extract_entities(data_list[n].content)}})

Front(s) == SubSeq(s, 1, Len(s) - 1)

Last(s) == s[Len(s)]

MaxScore(a, b) == IF Leq(a, b) THEN b ELSE a

KeyOf(entity) == EntityKey(entity.entity, entity.relation)

\* one iteration of the merge loop
MergeEntity(entity_map, entity) ==
    LET held == {i \in 1..Len(entity_map) : KeyOf(entity_map[i]) = KeyOf(entity)}
    IN  IF held # {}
        THEN LET i == Least(held)
             IN  [entity_map EXCEPT ![i].evidence_score =
                     MaxScore(entity_map[i].evidence_score, entity.evidence_score)]
        ELSE Append(entity_map, entity)

RECURSIVE _merge_duplicate_entities_first(_)
_merge_duplicate_entities_first(entity_list) ==
    IF Len(entity_list) = 0
    THEN <<>>
    ELSE TheOne({IF \E i \in 1..Len(entity_map) :
                       KeyOf(entity_map[i]) = KeyOf(Last(entity_list))
                 THEN entity_map
                 ELSE Append(entity_map, Last(entity_list))
                 : entity_map \in {_merge_duplicate_entities_first(Front(entity_list))}})

RECURSIVE _merge_duplicate_entities_keepAll(_)
_merge_duplicate_entities_keepAll(entity_list) ==
    IF Len(entity_list) = 0
    THEN <<>>
    ELSE Append(_merge_duplicate_entities_keepAll(Front(entity_list)), Last(entity_list))

\* entity_map is a dict: its values come out in the order the keys went in
RECURSIVE _merge_duplicate_entities(_)
_merge_duplicate_entities(entity_list) ==
    IF Len(entity_list) = 0
    THEN <<>>
    ELSE TheOne({MergeEntity(entity_map, Last(entity_list))
                 : entity_map \in {_merge_duplicate_entities(Front(entity_list))}})

\* the place of entity in a list already in descending order: after every
\* entity that scores at least as much
Insert(sorted, entity) ==
    LET k == Cardinality({i \in 1..Len(sorted) :
                            Leq(entity.evidence_score, sorted[i].evidence_score)})
    IN  SubSeq(sorted, 1, k) \o <<entity>> \o SubSeq(sorted, k + 1, Len(sorted))

RECURSIVE Sort_unsorted(_)
Sort_unsorted(entity_list) ==
    IF Len(entity_list) = 0
    THEN <<>>
    ELSE Append(Sort_unsorted(Front(entity_list)), Last(entity_list))

\* entities.sort(key=lambda x: x.evidence_score, reverse=True): stable
RECURSIVE Sort(_)
Sort(entity_list) ==
    IF Len(entity_list) = 0
    THEN <<>>
    ELSE TheOne({Insert(sorted, Last(entity_list))
                 : sorted \in {Sort(Front(entity_list))}})

\* the whole call: what it returns, what it printed, and every candidate scored
model_knowledge(data_list) ==
    TheOne({[entities |-> TheOne({Sort(merged)
                                  : merged \in {_merge_duplicate_entities(st.entities)}}),
             graph    |-> st.graph,
             scored   |-> st.scored]
            : st \in {ModelLoop(data_list, Len(data_list))}})

CuratedData(content, quality_score, metadata) ==
    [content |-> content, quality_score |-> quality_score, metadata |-> metadata]

\* the documents a request is made of
DocPool ==
    {CuratedData(<<"m", "e", "t", "h", "o", "d", " ", "z", "z", "z">>, 45, [title |-> "A", provenance |-> "arxiv"]),
     CuratedData(<<"t", "h", "e", " ", "m", "e", "t", "h", "o", "d">>, 50, [provenance |-> "pubmed"]),
     CuratedData(<<"M", "e", "t", "h", "o", "d", " ", "i", "m", "p", "r", "o", "v", "e", "s", " ", "a", "c", "c", "u", "r", "a", "c", "y">>, 40, [title |-> "C"]),
     CuratedData(<<"s", "p", "e", "e", "d", " ", "b", "y", " ", "4", "0", "%">>, 52, [title |-> "D", provenance |-> "arxiv"]),
     CuratedData(<<"n", "o", "v", "e", "l", " ", "e", "f", "f", "e", "c", "t", "i", "v", "e", " ", "i", "m", "p", "o", "r", "t", "a", "n", "t", " ", "m", "e", "t", "h", "o", "d", " ", "s", "h", "o", "w", "s", " ", "m", "e", "t", "h", "o", "d">>, 60,
                 [title |-> "E", provenance |-> "unknown"]),
     CuratedData(<<>>, 100, [title |-> "F", provenance |-> "arxiv"])}

ModelInputs == SeqsUpTo(DocPool, MaxDocs)

\* POST /model
model(input_data) ==
    /\ pc = "idle"
    /\ UNCHANGED <<runs, frontend>>
    /\ ep = Null
    /\ \E r \in {model_knowledge(input_data)} :
          \/ ep' = Exchange("model", input_data, Null, r.graph, OK, r.entities)
          \/ \* the k-th _update_knowledge_graph raises (its print, or the store a
             \* deployment puts there): no try surrounds the call, the loop ends
             \* and except Exception answers 500
             \E k \in 1..Len(r.graph) : \E msg \in ExcMsgs :
                ep' = Exchange("model", input_data, Null, SubSeq(r.graph, 1, k),
                               HTTPException(500, msg), Null)
    /\ UNCHANGED <<pc, topic, locals, calls, outcome, cause, last>>

NextModel ==
    \/ \E input_data \in ModelInputs : model(input_data)
    \/ TakeResult

SpecModel == Init /\ [][NextModel]_vars

(***************************************************************************)
(* app/services/ingestion.py.  Of the metadata the mock sources write, the *)
(* model keeps the keys the program reads afterwards: title, provenance    *)
(* and license (the dataset source writes license, too).                   *)
(***************************************************************************)
MaxSources == 3

\* class DataSource
DataSource == {"paper", "patent", "dataset", "forum"}

\* re.sub(r'\s+', ' ', content) on content[lo..hi], by halves: a run of
\* white space leaves one space where it starts
RECURSIVE CollapseSpace(_, _, _)
CollapseSpace(text, lo, hi) ==
    IF lo > hi
    THEN <<>>
    ELSE IF lo = hi
         THEN IF ~IsSpace(text[lo])
              THEN <<text[lo]>>
              ELSE IF IsSpace(At(text, lo - 1)) THEN <<>> ELSE <<" ">>
         ELSE CollapseSpace(text, lo, (lo + hi) \div 2)
              \o CollapseSpace(text, (lo + hi) \div 2 + 1, hi)

\* str.strip()
Strip(text) ==
    LET kept == {i \in 1..Len(text) : ~IsSpace(text[i])}
    IN  IF kept = {}
        THEN <<>>
        ELSE SubSeq(text, Least(kept), CHOOSE i \in kept : \A j \in kept : j <= i)

\* content = re.sub(r'\s+', ' ', content).strip()
Normalize(content) ==
    TheOne({TheOne({Strip(collapsed) : collapsed \in {CollapseSpace(raw, 1, Len(raw))}})
            : raw \in {content}})

\* the three mock papers of _ingest_papers
mock_papers(research_topic) ==
    <<[title |->
          <<"A", "d", "v", "a", "n", "c", "e", "s", " ", "i", "n", " ">>
          \o research_topic
          \o <<":", " ", "A", " ", "C", "o", "m", "p", "r", "e", "h", "e", "n", "s", "i",
               "v", "e", " ", "R", "e", "v", "i", "e", "w">>,
        abstract |->
          <<"T", "h", "i", "s", " ", "p", "a", "p", "e", "r", " ", "p", "r", "e", "s",
               "e", "n", "t", "s", " ", "a", " ", "c", "o", "m", "p", "r", "e", "h", "e",
               "n", "s", "i", "v", "e", " ", "r", "e", "v", "i", "e", "w", " ", "o", "f",
               " ", "r", "e", "c", "e", "n", "t", " ", "a", "d", "v", "a", "n", "c", "e",
               "s", " ", "i", "n", " ">>
          \o research_topic
          \o <<".", " ", "W", "e", " ", "a", "n", "a", "l", "y", "z", "e", " ", "1", "5",
               "0", " ", "s", "t", "u", "d", "i", "e", "s", " ", "p", "u", "b", "l", "i",
               "s", "h", "e", "d", " ", "b", "e", "t", "w", "e", "e", "n", " ", "2", "0",
               "2", "0", "-", "2", "0", "2", "3", " ", "a", "n", "d", " ", "i", "d", "e",
               "n", "t", "i", "f", "y", " ", "k", "e", "y", " ", "t", "r", "e", "n", "d",
               "s", ",", " ", "m", "e", "t", "h", "o", "d", "o", "l", "o", "g", "i", "c",
               "a", "l", " ", "i", "m", "p", "r", "o", "v", "e", "m", "e", "n", "t", "s",
               ",", " ", "a", "n", "d", " ", "f", "u", "t", "u", "r", "e", " ", "r", "e",
               "s", "e", "a", "r", "c", "h", " ", "d", "i", "r", "e", "c", "t", "i", "o",
               "n", "s", ".", " ", "O", "u", "r", " ", "a", "n", "a", "l", "y", "s", "i",
               "s", " ", "r", "e", "v", "e", "a", "l", "s", " ", "s", "i", "g", "n", "i",
               "f", "i", "c", "a", "n", "t", " ", "p", "r", "o", "g", "r", "e", "s", "s",
               " ", "i", "n", " ", "t", "h", "e", "o", "r", "e", "t", "i", "c", "a", "l",
               " ", "f", "o", "u", "n", "d", "a", "t", "i", "o", "n", "s", " ", "a", "n",
               "d", " ", "p", "r", "a", "c", "t", "i", "c", "a", "l", " ", "a", "p", "p",
               "l", "i", "c", "a", "t", "i", "o", "n", "s", ".">>],
       [title |->
          <<"N", "o", "v", "e", "l", " ", "A", "p", "p", "r", "o", "a", "c", "h", "e",
               "s", " ", "t", "o", " ">>
          \o research_topic
          \o <<" ", "O", "p", "t", "i", "m", "i", "z", "a", "t", "i", "o", "n">>,
        abstract |->
          <<"W", "e", " ", "i", "n", "t", "r", "o", "d", "u", "c", "e", " ", "t", "h",
               "r", "e", "e", " ", "n", "o", "v", "e", "l", " ", "o", "p", "t", "i", "m",
               "i", "z", "a", "t", "i", "o", "n", " ", "t", "e", "c", "h", "n", "i", "q",
               "u", "e", "s", " ", "f", "o", "r", " ">>
          \o research_topic
          \o <<" ", "a", "p", "p", "l", "i", "c", "a", "t", "i", "o", "n", "s", ".", " ",
               "O", "u", "r", " ", "m", "e", "t", "h", "o", "d", "s", " ", "d", "e", "m",
               "o", "n", "s", "t", "r", "a", "t", "e", " ", "2", "5", "%", " ", "i", "m",
               "p", "r", "o", "v", "e", "m", "e", "n", "t", " ", "i", "n", " ", "e", "f",
               "f", "i", "c", "i", "e", "n", "c", "y", " ", "c", "o", "m", "p", "a", "r",
               "e", "d", " ", "t", "o", " ", "e", "x", "i", "s", "t", "i", "n", "g", " ",
               "a", "p", "p", "r", "o", "a", "c", "h", "e", "s", ".", " ", "E", "x", "p",
               "e", "r", "i", "m", "e", "n", "t", "a", "l", " ", "v", "a", "l", "i", "d",
               "a", "t", "i", "o", "n", " ", "o", "n", " ", "b", "e", "n", "c", "h", "m",
               "a", "r", "k", " ", "d", "a", "t", "a", "s", "e", "t", "s", " ", "c", "o",
               "n", "f", "i", "r", "m", "s", " ", "t", "h", "e", " ", "e", "f", "f", "e",
               "c", "t", "i", "v", "e", "n", "e", "s", "s", " ", "o", "f", " ", "o", "u",
               "r", " ", "a", "p", "p", "r", "o", "a", "c", "h", ".">>],
       [title |->
          <<"M", "a", "c", "h", "i", "n", "e", " ", "L", "e", "a", "r", "n", "i", "n",
               "g", " ", "A", "p", "p", "l", "i", "c", "a", "t", "i", "o", "n", "s", " ",
               "i", "n", " ">>
          \o research_topic,
        abstract |->
          <<"T", "h", "i", "s", " ", "s", "t", "u", "d", "y", " ", "e", "x", "p", "l",
               "o", "r", "e", "s", " ", "t", "h", "e", " ", "a", "p", "p", "l", "i", "c",
               "a", "t", "i", "o", "n", " ", "o", "f", " ", "d", "e", "e", "p", " ", "l",
               "e", "a", "r", "n", "i", "n", "g", " ", "t", "e", "c", "h", "n", "i", "q",
               "u", "e", "s", " ", "t", "o", " ">>
          \o research_topic
          \o <<" ", "p", "r", "o", "b", "l", "e", "m", "s", ".", " ", "W", "e", " ", "d",
               "e", "v", "e", "l", "o", "p", " ", "a", " ", "n", "o", "v", "e", "l", " ",
               "n", "e", "u", "r", "a", "l", " ", "n", "e", "t", "w", "o", "r", "k", " ",
               "a", "r", "c", "h", "i", "t", "e", "c", "t", "u", "r", "e", " ", "t", "h",
               "a", "t", " ", "a", "c", "h", "i", "e", "v", "e", "s", " ", "s", "t", "a",
               "t", "e", "-", "o", "f", "-", "t", "h", "e", "-", "a", "r", "t", " ", "p",
               "e", "r", "f", "o", "r", "m", "a", "n", "c", "e", " ", "o", "n", " ", "s",
               "t", "a", "n", "d", "a", "r", "d", " ", "b", "e", "n", "c", "h", "m", "a",
               "r", "k", "s", ".", " ", "T", "h", "e", " ", "m", "o", "d", "e", "l", " ",
               "s", "h", "o", "w", "s", " ", "4", "0", "%", " ", "i", "m", "p", "r", "o",
               "v", "e", "m", "e", "n", "t", " ", "i", "n", " ", "a", "c", "c", "u", "r",
               "a", "c", "y", " ", "o", "v", "e", "r", " ", "p", "r", "e", "v", "i", "o",
               "u", "s", " ", "m", "e", "t", "h", "o", "d", "s", ".">>]>>

\* the mock patent of _ingest_patents
mock_patents(research_topic) ==
    <<[title |->
          <<"S", "y", "s", "t", "e", "m", " ", "a", "n", "d", " ", "M", "e", "t", "h",
               "o", "d", " ", "f", "o", "r", " ">>
          \o research_topic
          \o <<" ", "E", "n", "h", "a", "n", "c", "e", "m", "e", "n", "t">>,
        abstract |->
          <<"A", " ", "n", "o", "v", "e", "l", " ", "s", "y", "s", "t", "e", "m", " ",
               "f", "o", "r", " ", "i", "m", "p", "r", "o", "v", "i", "n", "g", " ">>
          \o research_topic
          \o <<" ", "p", "e", "r", "f", "o", "r", "m", "a", "n", "c", "e", " ", "t", "h",
               "r", "o", "u", "g", "h", " ", "i", "n", "n", "o", "v", "a", "t", "i", "v",
               "e", " ", "d", "e", "s", "i", "g", "n", ".", " ", "T", "h", "e", " ", "i",
               "n", "v", "e", "n", "t", "i", "o", "n", " ", "p", "r", "o", "v", "i", "d",
               "e", "s", " ", "3", "0", "%", " ", "e", "f", "f", "i", "c", "i", "e", "n",
               "c", "y", " ", "g", "a", "i", "n", "s", " ", "o", "v", "e", "r", " ", "e",
               "x", "i", "s", "t", "i", "n", "g", " ", "s", "o", "l", "u", "t", "i", "o",
               "n", "s", ".">>]>>

\* the mock dataset of _ingest_datasets
mock_datasets(research_topic) ==
    <<[title |->
          research_topic
          \o <<" ", "B", "e", "n", "c", "h", "m", "a", "r", "k", " ", "D", "a", "t", "a",
               "s", "e", "t", " ", "v", "2", ".", "0">>,
        description |->
          <<"C", "o", "m", "p", "r", "e", "h", "e", "n", "s", "i", "v", "e", " ", "d",
               "a", "t", "a", "s", "e", "t", " ", "f", "o", "r", " ">>
          \o research_topic
          \o <<" ", "r", "e", "s", "e", "a", "r", "c", "h", " ", "c", "o", "n", "t", "a",
               "i", "n", "i", "n", "g", " ", "1", "0", ",", "0", "0", "0", " ", "s", "a",
               "m", "p", "l", "e", "s", " ", "w", "i", "t", "h", " ", "g", "r", "o", "u",
               "n", "d", " ", "t", "r", "u", "t", "h", " ", "a", "n", "n", "o", "t", "a",
               "t", "i", "o", "n", "s", ".", " ", "I", "n", "c", "l", "u", "d", "e", "s",
               " ", "t", "r", "a", "i", "n", "i", "n", "g", ",", " ", "v", "a", "l", "i",
               "d", "a", "t", "i", "o", "n", ",", " ", "a", "n", "d", " ", "t", "e", "s",
               "t", " ", "s", "p", "l", "i", "t", "s", ".">>]>>

\* the mock discussion of _ingest_forums
mock_discussions(research_topic) ==
    <<[title |->
          <<"D", "i", "s", "c", "u", "s", "s", "i", "o", "n", ":", " ", "L", "a", "t",
               "e", "s", "t", " ", "d", "e", "v", "e", "l", "o", "p", "m", "e", "n", "t",
               "s", " ", "i", "n", " ">>
          \o research_topic,
        content |->
          <<"C", "o", "m", "m", "u", "n", "i", "t", "y", " ", "d", "i", "s", "c", "u",
               "s", "s", "i", "o", "n", " ", "a", "b", "o", "u", "t", " ", "r", "e", "c",
               "e", "n", "t", " ", "b", "r", "e", "a", "k", "t", "h", "r", "o", "u", "g",
               "h", "s", " ", "i", "n", " ">>
          \o research_topic
          \o <<".", " ", "M", "u", "l", "t", "i", "p", "l", "e", " ", "e", "x", "p", "e",
               "r", "t", "s", " ", "s", "h", "a", "r", "e", " ", "i", "n", "s", "i", "g",
               "h", "t", "s", " ", "a", "n", "d", " ", "d", "e", "b", "a", "t", "e", " ",
               "m", "e", "t", "h", "o", "d", "o", "l", "o", "g", "i", "c", "a", "l", " ",
               "a", "p", "p", "r", "o", "a", "c", "h", "e", "s", ".", " ", "H", "i", "g",
               "h", "-", "q", "u", "a", "l", "i", "t", "y", " ", "t", "e", "c", "h", "n",
               "i", "c", "a", "l", " ", "d", "i", "s", "c", "u", "s", "s", "i", "o", "n",
               " ", "w", "i", "t", "h", " ", "p", "e", "e", "r", " ", "r", "e", "v", "i",
               "e", "w", ".">>]>>

\* the loop body shared by the four sources: normalize, assess, and keep the
\* item if quality_score > 0.5
Curate(raw, metadata) ==
    TheOne({TheOne({IF quality_score > 50
                    THEN <<CuratedData(content, quality_score, metadata)>>
                    ELSE <<>>
                    : quality_score \in {check_data_quality(content, metadata)}})
            : content \in {Normalize(raw)}})

NewLines == <<"\n", "\n">>

RECURSIVE IngestPapersUpTo(_, _)
IngestPapersUpTo(papers, n) ==
    IF n = 0
    THEN <<>>
    ELSE IngestPapersUpTo(papers, n - 1)
         \o Curate(<<"T", "i", "t", "l", "e", ":", " ">> \o papers[n].title \o NewLines
                   \o <<"A", "b", "s", "t", "r", "a", "c", "t", ":", " ">> \o papers[n].abstract,
                   [title |-> papers[n].title, provenance |-> "arXiv",
                    license |-> "CC-BY-4.0"])

_ingest_papers(research_topic) ==
    TheOne({IngestPapersUpTo(papers, Len(papers)) : papers \in {mock_papers(research_topic)}})

_ingest_patents(research_topic) ==
    TheOne({Curate(<<"P", "a", "t", "e", "n", "t", ":", " ">> \o patent.title \o NewLines
                   \o <<"A", "b", "s", "t", "r", "a", "c", "t", ":", " ">> \o patent.abstract,
                   [title |-> patent.title, provenance |-> "USPTO", license |-> "Patent"])
            : patent \in {mock_patents(research_topic)[1]}})

_ingest_datasets(research_topic) ==
    TheOne({Curate(<<"D", "a", "t", "a", "s", "e", "t", ":", " ">> \o dataset.title \o NewLines
                   \o <<"D", "e", "s", "c", "r", "i", "p", "t", "i", "o", "n", ":", " ">> \o dataset.description,
                   [title |-> dataset.title, license |-> "CC-BY-4.0",
                    provenance |-> "Kaggle"])
            : dataset \in {mock_datasets(research_topic)[1]}})

_ingest_forums(research_topic) ==
    TheOne({Curate(<<"F", "o", "r", "u", "m", " ", "D", "i", "s", "c", "u", "s", "s", "i", "o", "n", ":", " ">> \o discussion.title \o NewLines
                   \o <<"C", "o", "n", "t", "e", "n", "t", ":", " ">> \o discussion.content,
                   [title |-> discussion.title, provenance |-> "ResearchGate",
                    license |-> "Community"])
            : discussion \in {mock_discussions(research_topic)[1]}})

\* the if/elif chain of the loop over input_data.sources
IngestSource(source, research_topic) ==
    CASE source = "paper"   -> _ingest_papers(research_topic)
      [] source = "patent"  -> _ingest_patents(research_topic)
      [] source = "dataset" -> _ingest_datasets(research_topic)
      [] source = "forum"   -> _ingest_forums(research_topic)
      [] OTHER              -> <<>>

\* the loop over input_data.sources[1..n]
RECURSIVE IngestUpTo(_, _)
IngestUpTo(input_data, n) ==
    IF n = 0
    THEN <<>>
    ELSE IngestUpTo(input_data, n - 1) \o IngestSource(input_data.sources[n], input_data.topic)

\* an empty source list replaced by the schema's default [PAPER]
ingest_and_curate_defaulted(input_data) ==
    IF input_data.sources = <<>>
    THEN _ingest_papers(input_data.topic)
    ELSE IngestUpTo(input_data, Len(input_data.sources))

ingest_and_curate(input_data) == IngestUpTo(input_data, Len(input_data.sources))

IngestionInput(research_topic, sources) == [topic |-> research_topic, sources |-> sources]

\* the topics and source lists a request is made of
IngestTopics == {<<>>, <<"m", "l">>, <<"t", "o", "x", "i", "c", " ", "w", "a", "s", "t", "e">>}

IngestInputs ==
    {IngestionInput(t, s) : t \in IngestTopics, s \in SeqsUpTo(DataSource, MaxSources)}

\* POST /ingest
ingest_data(input) ==
    /\ pc = "idle"
    /\ UNCHANGED <<runs, frontend>>
    /\ ep = Null
    /\ ep' = Exchange("ingest", input, Null, <<>>, OK, ingest_and_curate(input))
    /\ UNCHANGED <<pc, topic, locals, calls, outcome, cause, last>>

NextIngest ==
    \/ \E input \in IngestInputs : ingest_data(input)
    \/ TakeResult

SpecIngest == Init /\ [][NextIngest]_vars


(***************************************************************************)
(* model_knowledge calls running side by side: FastAPI runs a `def`        *)
(* handler in a worker thread, so two requests interleave at every         *)
(* statement; one step is an iteration of the loop over data_list.         *)
(***************************************************************************)
MaxRunDocs == 2

\* the documents the concurrent calls are made of: the two-word documents
\* of DocPool that mention "method"
RunDocs ==
    {d \in DocPool : Contains(Lower(d.content), <<"m", "e", "t", "h", "o", "d">>) /\ Len(d.content) = Len(<<"t", "h", "e", " ", "m", "e", "t", "h", "o", "d">>)}

RunInputs == SeqsUpTo(RunDocs, MaxRunDocs)

\* entities = []; entity_frequency = {}
NewFrame ==
    [entity_frequency |-> EmptyDict, scored |-> <<>>, entities |-> <<>>, graph |-> <<>>]

\* entity_frequency kept at module level: a call counts on top of what the
\* other call has counted
Frame_shared(all, r) ==
    LET others == {o \in Runs \ {r} : all[o].st # Null}
    IN  IF others = {}
        THEN all[r].st
        ELSE [all[r].st EXCEPT !.entity_frequency =
                 all[CHOOSE o \in others : TRUE].st.entity_frequency @@ @]

\* the locals entities and entity_frequency of the call thread r runs
Frame(all, r) == all[r].st

\* a request reaches model_knowledge in thread r
StartRun(r, data_list) ==
    /\ runs[r].pc = "idle"
    /\ runs' = [runs EXCEPT ![r] = [pc |-> "loop", data_list |-> data_list, n |-> 0,
                                    st |-> NewFrame, returned |-> Null]]
    /\ UNCHANGED <<backend, frontend>>

\* for data in data_list: one document, or the hook raising inside it
LoopStep(r) ==
    /\ runs[r].pc = "loop"
    /\ runs[r].n < Len(runs[r].data_list)
    /\ \E data_item \in {runs[r].data_list[runs[r].n + 1]} :
       \E extracted_entities \in {_extract_entities(data_item.content)} :
       \E after \in {ModelData(Frame(runs, r), extracted_entities,
                               Len(extracted_entities), data_item)} :
          \/ runs' = [runs EXCEPT ![r].st = after, ![r].n = @ + 1]
          \/ /\ Len(after.graph) > Len(runs[r].st.graph)
             /\ runs' = [runs EXCEPT ![r].pc = "raised"]
    /\ UNCHANGED <<backend, frontend>>

\* the merge, the sort and the return
ReturnRun(r) ==
    /\ runs[r].pc = "loop"
    /\ runs[r].n = Len(runs[r].data_list)
    /\ runs' = [runs EXCEPT ![r].pc = "done",
                            ![r].returned = Sort(_merge_duplicate_entities(runs[r].st.entities))]
    /\ UNCHANGED <<backend, frontend>>

\* the response is sent; the frame is gone
EndRun(r) ==
    /\ runs[r].pc \in {"done", "raised"}
    /\ runs' = [runs EXCEPT ![r] = IdleRun]
    /\ UNCHANGED <<backend, frontend>>

NextRuns ==
    \E r \in Runs :
       \/ \E data_list \in RunInputs : StartRun(r, data_list)
       \/ LoopStep(r)
       \/ ReturnRun(r)
       \/ EndRun(r)

SpecRuns == Init /\ [][NextRuns]_vars

(***************************************************************************)
(* The axios instance of the React application (api.js): one request at a  *)
(* time, from the Login page or from a page behind the login.              *)
(***************************************************************************)
MaxTransmissions == 3

\* the access tokens POST /auth/login answers with
Tokens == {"tok"}

\* `Bearer ${token}`
Bearer(token) == "Bearer " \o token

\* the data of a 2xx response
ResponseData == {[access_token |-> t] : t \in Tokens} \cup {[detail |-> "ok"]}

\* the statuses of an error response
ErrorStatuses == {401, 422, 500}

\* what a caller passes for headers.Authorization: nothing, or
\* `Bearer ${localStorage.getItem('token')}` as the pages behind the login do
CallerHeaders == {null, Bearer(localStorage.token)}

\* the config of instance.get/post: the caller's headers over the instance defaults
Config(url, authorization) ==
    [url     |-> url,
     headers |-> [Authorization |-> IF authorization # null
                                    THEN authorization
                                    ELSE defaults.Authorization],
     timeout |-> 45000,
     _retry  |-> FALSE]

\* instance.interceptors.request.use
RequestInterceptor(config) ==
    [config EXCEPT !.headers.Authorization =
                       IF localStorage.token # null THEN Bearer(localStorage.token) ELSE @,
                   !.timeout = IF config.url = "/auth/login" THEN 60000 ELSE @]

\* a request handed to the adapter, and the promise the caller awaits
Request(config, caller) ==
    [config |-> RequestInterceptor(config), caller |-> caller, transmissions |-> 1,
     settled |-> Null]

Fulfilled(response_data) ==
    [kind |-> "fulfilled", code |-> null, status |-> 200, data |-> response_data]

\* status 0: the error has no response
Rejected(code, status) == [kind |-> "rejected", code |-> code, status |-> status, data |-> Null]

Pending == inflight # Null /\ inflight.settled = Null

\* a promise has settled and its continuation has not run yet: no timer and
\* no event is served before it
Settling == inflight # Null /\ inflight.settled # Null

\* the retry condition without the flag
ShouldRetry_always(code, config) == code = "ECONNABORTED"

\* error.code === 'ECONNABORTED' && !originalRequest._retry
ShouldRetry(code, config) == code = "ECONNABORTED" /\ ~config._retry

\* (response) => response
Response(response_data) ==
    /\ Pending
    /\ inflight' = [inflight EXCEPT !.settled = Fulfilled(response_data)]
    /\ UNCHANGED <<backend, runs, localStorage, defaults, window, login, home>>

\* the request timed out: the error handler of the response interceptor
\* sends it again through the instance, or rejects
Timeout ==
    /\ Pending
    /\ inflight.transmissions <= MaxTransmissions
    /\ IF ShouldRetry("ECONNABORTED", inflight.config)
       THEN inflight' = [inflight EXCEPT
                            !.config = RequestInterceptor([@ EXCEPT !._retry = TRUE]),
                            !.transmissions = @ + 1]
       ELSE inflight' = [inflight EXCEPT !.settled = Rejected("ECONNABORTED", 0)]
    /\ UNCHANGED <<backend, runs, localStorage, defaults, window, login, home>>

\* a 401 handler that leaves the token where it is
removeItem_kept(storage) == storage

\* localStorage.removeItem('token')
removeItem(storage) == [storage EXCEPT !.token = null]

\* the server answered with an error status
ErrorResponse(status) ==
    /\ Pending
    /\ inflight' = [inflight EXCEPT !.settled = Rejected("ERR_BAD_RESPONSE", status)]
    /\ IF status = 401
       THEN /\ localStorage' = removeItem(localStorage)
            /\ window' = [window EXCEPT !.assigned = "/login"]
       ELSE UNCHANGED <<localStorage, window>>
    /\ UNCHANGED <<backend, runs, defaults, login, home>>

\* no response arrived
NetworkError ==
    /\ Pending
    /\ inflight' = [inflight EXCEPT !.settled = Rejected("ERR_NETWORK", 0)]
    /\ UNCHANGED <<backend, runs, localStorage, defaults, window, login, home>>

\* a page behind the login sends a request
AppRequest(url, authorization) ==
    /\ window.href = "/dashboard"
    /\ inflight = Null
    /\ inflight' = Request(Config(url, authorization), "app")
    /\ UNCHANGED <<backend, runs, localStorage, defaults, window, login, home>>

\* its await returns or throws
AppSettled ==
    /\ Settling
    /\ inflight.caller = "app"
    /\ inflight' = Null
    /\ UNCHANGED <<backend, runs, localStorage, defaults, window, login, home>>

(***************************************************************************)
(* pages/Login.js: submit.                                                 *)
(***************************************************************************)
\* the message the catch block shows
LoginError(settled) ==
    IF settled.code = "ECONNABORTED"
    THEN "Server is taking longer than expected to respond. Please try again in a moment."
    ELSE IF settled.status # 0
         THEN CASE settled.status = 422 -> "Invalid request format. Please contact support."
                [] settled.status = 401 -> "Invalid username or password."
                [] OTHER                -> "Server error"
         ELSE "Network error. Please check your connection and try again."

\* clearTimeout on a timer that has fired does nothing
clearTimeout_never(timer) == timer

clearTimeout(timer) == IF timer = "set" THEN "cleared" ELSE timer

\* the form is submitted: the statements up to the await
Submit ==
    /\ window.href = "/login"
    /\ ~login.loading
    /\ inflight = Null
    /\ login' = [pc |-> "awaiting", loading |-> TRUE, isWakingUp |-> FALSE, err |-> null,
                 wakeUpTimer |-> "set"]
    /\ inflight' = Request(Config("/auth/login", null), "login")
    /\ UNCHANGED <<backend, runs, localStorage, defaults, window, home>>

\* five seconds have passed: the callback of setTimeout
WakeUpTimer ==
    /\ login.wakeUpTimer = "set"
    /\ ~Settling
    /\ login' = [login EXCEPT !.isWakingUp = TRUE, !.wakeUpTimer = "fired"]
    /\ UNCHANGED <<backend, runs, localStorage, defaults, window, inflight, home>>

\* the await returns or throws: the rest of try, catch and finally
SubmitSettled ==
    /\ Settling
    /\ inflight.caller = "login"
    /\ \E settled \in {inflight.settled} :
          IF settled.kind = "fulfilled"
          THEN /\ login' = [login EXCEPT !.pc = "idle", !.loading = FALSE,
                                         !.isWakingUp = FALSE,
                                         !.wakeUpTimer = clearTimeout(@)]
               /\ IF "access_token" \in DOMAIN settled.data
                  THEN /\ localStorage' = [localStorage EXCEPT
                                              !.token = settled.data.access_token]
                       /\ defaults' = [defaults EXCEPT
                                          !.Authorization = Bearer(settled.data.access_token)]
                       /\ window' = [window EXCEPT !.href = "/dashboard"]
                  ELSE UNCHANGED <<localStorage, defaults, window>>
          ELSE /\ login' = [login EXCEPT !.pc = "idle", !.loading = FALSE,
                                         !.isWakingUp = FALSE,
                                         !.err = LoginError(settled),
                                         !.wakeUpTimer = clearTimeout(@)]
               /\ UNCHANGED <<localStorage, defaults, window>>
    /\ inflight' = Null
    /\ UNCHANGED <<backend, runs, home>>

\* the document assigned to window.location.href loads: the scripts start
\* anew, the old document's requests and timers are gone
PageLoad ==
    /\ window.assigned # null
    /\ ~Settling
    /\ window' = [href |-> window.assigned, assigned |-> null]
    /\ defaults' = [Authorization |-> null]
    /\ inflight' = Null
    /\ login' = LoginMounted
    /\ UNCHANGED <<backend, runs, localStorage, home>>

AppUrls == {"/system/health"}

NextClient ==
    \/ Submit
    \/ WakeUpTimer
    \/ SubmitSettled
    \/ \E url \in AppUrls : \E authorization \in CallerHeaders : AppRequest(url, authorization)
    \/ AppSettled
    \/ \E d \in ResponseData : Response(d)
    \/ Timeout
    \/ \E status \in ErrorStatuses : ErrorResponse(status)
    \/ NetworkError
    \/ PageLoad

SpecClient == Init /\ [][NextClient]_vars

\* every transmission ends: with a response, an error, or the timeout
Settles ==
    \/ \E d \in ResponseData : Response(d)
    \/ Timeout
    \/ \E status \in ErrorStatuses : ErrorResponse(status)
    \/ NetworkError

FairClient == SpecClient /\ WF_vars(Settles)

(***************************************************************************)
(* pages/index.tsx and components/StageForm.tsx: the page that runs the    *)
(* full flow through lib/api.ts, an axios instance without interceptors.   *)
(***************************************************************************)
MaxPending == 2

\* what the user types into the topic field
HomeTopics == {"", "ml", "ai", "climate change models"}

\* response.data of POST /api/full-flow
FlowData == {"results of ml", "results of ai", "results of climate change models"}

\* a button that stays enabled while a request runs
ButtonEnabled_whileLoading(h) == h.topic # ""

\* disabled={!topic || loading}
ButtonEnabled(h) == ~(h.topic = "" \/ h.loading)

\* onChange={(e) => setTopic(e.target.value)}
SetTopic(t) ==
    /\ home.topic # t
    /\ home' = [home EXCEPT !.topic = t]
    /\ UNCHANGED <<backend, runs, localStorage, defaults, window, inflight, login>>

\* onClick={onRun}: handleRunFlow up to the await
ClickRun ==
    /\ ButtonEnabled(home)
    /\ Len(home.pending) < MaxPending
    /\ home' = [home EXCEPT !.loading = TRUE, !.pending = Append(@, home.topic)]
    /\ UNCHANGED <<backend, runs, localStorage, defaults, window, inflight, login>>

\* the await returns: setResults(response.data); setLoading(false)
FlowFulfilled(response_data) ==
    /\ home.pending # <<>>
    /\ home' = [home EXCEPT !.results = response_data, !.loading = FALSE,
                            !.pending = Tail(@), !.settled = "fulfilled"]
    /\ UNCHANGED <<backend, runs, localStorage, defaults, window, inflight, login>>

\* the await throws: console.error; setLoading(false)
FlowRejected ==
    /\ home.pending # <<>>
    /\ home' = [home EXCEPT !.loading = FALSE, !.pending = Tail(@), !.settled = "rejected"]
    /\ UNCHANGED <<backend, runs, localStorage, defaults, window, inflight, login>>

NextHome ==
    \/ \E t \in HomeTopics : SetTopic(t)
    \/ ClickRun
    \/ \E d \in FlowData : FlowFulfilled(d)
    \/ FlowRejected

SpecHome == Init /\ [][NextHome]_vars

(***************************************************************************)
(* Properties.                                                             *)
(***************************************************************************)
StageNames(c) == [i \in 1..Len(c) |-> c[i].stage]

IsPrefix(s, t) == Len(s) <= Len(t) /\ \A i \in 1..Len(s) : s[i] = t[i]

Min(S) == CHOOSE x \in S : \A y \in S : x <= y

GateApproves(h) == Len(Issues(FullText(h))) = 0

FailureClasses == {"policy", "criteria", "fault"}

\* what the code hands to the i-th stage when it threads the outputs through
Threaded(i) ==
    CASE i = 1 -> topic
      [] i = 4 -> calls[3].ret.hypotheses[1]
      [] OTHER -> calls[i - 1].ret

\* C1: the stages of a run are invoked in the order ingestion, modeling,
\* hypothesis, simulation, validation, learning; a stage is invoked only after
\* its predecessor returned, with exactly the predecessor's output (simulation
\* with the first hypothesis of the hypothesis stage's output); a successful
\* run has invoked all six.
C1_StrictOrder ==
    /\ IsPrefix(StageNames(calls), Stages)
    /\ \A i \in 1..Len(calls) :
          /\ i > 1 => ~calls[i - 1].raised
          /\ calls[i].arg = Threaded(i)
    /\ cause = "success" => Len(calls) = 6

C1_Witness == cause = "success" /\ Len(calls) = 6 /\ pc = "done"

\* C2: a policy rejection, a criteria rejection and a stage fault end the full
\* flow with pairwise different outcomes: two requests that ended in different
\* failure classes never got the same answer.
C2_Distinguishable ==
    (/\ pc = "done"
     /\ cause \in FailureClasses
     /\ last.cause \in FailureClasses
     /\ cause # last.cause) => outcome # last.outcome

\* C3: POST /simulate answers a hypothesis the ethics review does not approve
\* with HTTP 403 "Ethics gate failed", and run_simulation is not invoked.
C3_SimulateAnswers403 ==
    (/\ ep # Null
     /\ ep.endpoint = "simulate"
     /\ ~ep.ethics.approved)
    => /\ ep.response = HTTPException(403, "Ethics gate failed")
       /\ ep.invoked = <<>>

\* C4: when the approved set is empty after the gate, the run ends with the
\* hypothesis-stage rejection "No approved hypotheses" and no later stage is
\* invoked.
C4_NoApprovedRejects ==
    (/\ Len(calls) >= 3
     /\ ~calls[3].raised
     /\ Len(calls[3].ret.hypotheses) = 0)
    => /\ Len(calls) = 3
       /\ pc = "done"
       /\ outcome = HTTPException(403, "No approved hypotheses")

C4_Witness ==
    /\ pc = "done"
    /\ Len(calls) = 3
    /\ ~calls[3].raised
    /\ Len(generated) > 0
    /\ Len(hyps) = 0

\* C5: a simulation result with ethics_passed = false ends the run in the
\* simulation-stage rejection; validation is only ever given a result whose
\* ethics_passed is true.
C5_NoValidationAfterEthicsFail ==
    /\ (/\ Len(calls) >= 4
        /\ ~calls[4].raised
        /\ ~calls[4].ret.ethics_passed)
       => /\ Len(calls) = 4
          /\ pc = "done"
          /\ outcome = HTTPException(403, "Simulation ethics failed")
    /\ \A i \in 1..Len(calls) :
          calls[i].stage \in {"validation", "learning"} => calls[4].ret.ethics_passed

C5_Witness ==
    /\ pc = "done"
    /\ Len(calls) = 4
    /\ sim # Null
    /\ ~sim.ethics_passed

\* C6: when validation yields meets_criteria = false the run ends in the
\* validation rejection (400 "Results do not meet criteria") and learning is
\* not invoked.
C6_CriteriaRejection ==
    (/\ Len(calls) >= 5
     /\ ~calls[5].raised
     /\ ~calls[5].ret.meets_criteria)
    => /\ Len(calls) = 5
       /\ outcome = HTTPException(400, "Results do not meet criteria")

\* C7: a successful result has a non-empty hypotheses list with only
\* hypotheses the ethics gate approves, simulation.ethics_passed true and
\* validation.meets_criteria true.
C7_SuccessIsClean ==
    cause = "success"
    => /\ Len(result.hypotheses) > 0
       /\ \A i \in 1..Len(result.hypotheses) : GateApproves(result.hypotheses[i])
       /\ result.simulation.ethics_passed
       /\ result.validation.meets_criteria

C7_Witness ==
    /\ cause = "success"
    /\ result # Null
    /\ Len(generated) > Len(result.hypotheses)

\* C8: the gate keeps the approved hypotheses in generation order, and the
\* simulated hypothesis is the approved one with the smallest generation
\* index, whatever the plausibilities are.
C8_FirstApproved ==
    /\ (Len(calls) >= 3 /\ ~calls[3].raised)
       => calls[3].ret.hypotheses = SelectSeq(generated, GateApproves)
    /\ Len(calls) >= 4
       => LET idx == {i \in 1..Len(generated) : GateApproves(generated[i])}
          IN  idx # {} /\ calls[4].arg = generated[Min(idx)]

C8_Witness ==
    /\ Len(calls) >= 4
    /\ Len(hyps) >= 2
    /\ hyps[1].plausibility < hyps[2].plausibility

\* C9: the run aborts at the first rejection or fault: only the last
\* invocation of a run can have raised or been rejected, no stage is invoked
\* twice, an outcome once given stays and no stage is invoked after it, and
\* every started run reaches its terminal outcome.
C9_AbortAtFirst ==
    /\ [](/\ \A i, j \in 1..Len(calls) : i # j => calls[i].stage # calls[j].stage
          /\ \A i \in 1..(Len(calls) - 1) : ~calls[i].raised
          /\ (outcome # NoOutcome) <=> (pc = "done")
          /\ (cause # "none") <=> (pc = "done"))
    /\ [][outcome # NoOutcome =>
            \/ (calls' = calls /\ outcome' = outcome /\ cause' = cause)
            \/ (pc' = "idle" /\ calls' = <<>>)]_vars
    /\ [](pc \notin {"idle", "done"} => <>(pc = "done"))

C9_Witness ==
    /\ pc = "done"
    /\ cause = "fault"
    /\ Len(calls) = 2
    /\ calls[2].raised

\* C10: every verdict of the ethics review has approved = true exactly when
\* its issues list is empty.
C10_ApprovedIffNoIssues ==
    /\ (ep # Null /\ ep.endpoint = "simulate")
       => (ep.ethics.approved <=> Len(ep.ethics.issues) = 0)
    /\ (Len(calls) >= 3 /\ ~calls[3].raised)
       => \A i \in 1..Len(calls[3].ret.ethics) :
             calls[3].ret.ethics[i].approved <=> Len(calls[3].ret.ethics[i].issues) = 0

C10_Witness ==
    /\ ep # Null
    /\ ep.endpoint = "simulate"
    /\ Len(ep.ethics.issues) = 1
    /\ ~ep.ethics.approved


(***************************************************************************)
(* Properties of the policy gate.                                          *)
(***************************************************************************)
IssueOrder ==
    <<"safety_risk", "bias_detected", "human_subjects_protection",
      "environmental_impact", "dual_use_concern">>

Rank(tag) == CHOOSE k \in 1..Len(IssueOrder) : IssueOrder[k] = tag

Range(s) == {s[i] : i \in 1..Len(s)}

\* the verdicts a state shows: the one of POST /simulate and the gate's in the flow
Verdicts ==
    (IF ep # Null /\ ep.endpoint = "simulate" THEN {ep.ethics} ELSE {})
    \cup (IF Len(calls) >= 3 /\ ~calls[3].raised THEN Range(calls[3].ret.ethics) ELSE {})

\* the hypotheses those verdicts were given for
Reviewed ==
    (IF ep # Null /\ ep.endpoint = "simulate" THEN {ep.request} ELSE {})
    \cup (IF Len(calls) >= 3 /\ ~calls[3].raised THEN Range(generated) ELSE {})

NeedsHumanProtection(h) ==
    /\ ContainsAny(FullText(h), human_subjects_keywords)
    /\ ~ContainsAny(FullText(h), human_subjects_clearance)

HasBioweapon(h) == Contains(FullText(h), <<"b", "i", "o", "w", "e", "a", "p", "o", "n">>)

\* C11: the issues of a verdict are tags of the closed vocabulary, each at most
\* once, in the order safety_risk, bias_detected, human_subjects_protection,
\* environmental_impact, dual_use_concern; review_notes has one line per issue
\* in that same order between its header and its recommendation.
C11_IssuesOnceInOrder ==
    \A v \in Verdicts :
       /\ Range(v.issues) \subseteq Range(IssueOrder)
       /\ \A i, j \in 1..Len(v.issues) : i < j => Rank(v.issues[i]) < Rank(v.issues[j])
       /\ Len(v.issues) > 0 =>
             /\ Len(v.review_notes) = Len(v.issues) + 2
             /\ \A i \in 1..Len(v.issues) : v.review_notes[i + 1] = NoteLine(v.issues[i])

C11_Witness ==
    /\ ep # Null
    /\ ep.endpoint = "simulate"
    /\ ep.request = DangerousHypothesis
    /\ ep.ethics.issues = <<"safety_risk", "dual_use_concern">>

\* C12: a verdict contains human_subjects_protection exactly when the combined
\* lower-cased text has a human-subject term and none of irb, ethics, consent;
\* such a hypothesis is not approved, POST /simulate does not run a simulation
\* for it and the full flow never simulates it.
C12_HumanSubjectsConjunctive ==
    /\ \A h \in Reviewed :
          ("human_subjects_protection" \in Range(ethics_review_hypothesis(h).issues))
             <=> NeedsHumanProtection(h)
    /\ (ep # Null /\ ep.endpoint = "simulate")
          => /\ ("human_subjects_protection" \in Range(ep.ethics.issues))
                   <=> NeedsHumanProtection(ep.request)
             /\ NeedsHumanProtection(ep.request) => (~ep.ethics.approved /\ ep.invoked = <<>>)
    /\ (Len(calls) >= 3 /\ ~calls[3].raised)
          => \A i \in 1..Len(calls[3].ret.hypotheses) :
                ~NeedsHumanProtection(calls[3].ret.hypotheses[i])
    /\ Len(calls) >= 4 => ~NeedsHumanProtection(calls[4].arg)

C12_Witness ==
    /\ ep # Null
    /\ ep.endpoint = "simulate"
    /\ ep.request = Hyp(<<"T", "r", "i", "a", "l">>, 70, <<"H", "u", "m", "a", "n", " ", "c", "o", "h", "o", "r", "t">>, <<"f", "o", "r", "m", "s">>)
    /\ ep.ethics.issues = <<"human_subjects_protection">>
    /\ ep.invoked = <<>>

\* C13: a hypothesis whose text contains "bioweapon" is never approved and has
\* safety_risk or dual_use_concern among its issues, whatever else the text
\* contains; no simulation result is produced for it.
C13_BioweaponBlocked ==
    /\ (ep # Null /\ ep.endpoint = "simulate" /\ HasBioweapon(ep.request))
          => /\ ~ep.ethics.approved
             /\ Range(ep.ethics.issues) \cap {"safety_risk", "dual_use_concern"} # {}
             /\ ep.invoked = <<>>
             /\ ep.body = Null
    /\ (Len(calls) >= 3 /\ ~calls[3].raised)
          => \A i \in 1..Len(generated) :
                HasBioweapon(generated[i])
                   => /\ ~calls[3].ret.ethics[i].approved
                      /\ generated[i] \notin Range(calls[3].ret.hypotheses)
    /\ Len(calls) >= 4 => ~HasBioweapon(calls[4].arg)

C13_Witness ==
    /\ ep # Null
    /\ ep.endpoint = "simulate"
    /\ ep.request = Hyp(<<"B", "i", "o", "w", "e", "a", "p", "o", "n", " ", "s", "t", "u", "d", "y">>, 50, <<"I", "R", "B", " ", "c", "o", "n", "s", "e", "n", "t">>, <<"i", "m", "p", "a", "c", "t", " ", "a", "s", "s", "e", "s", "s", "m", "e", "n", "t">>)
    /\ ~ep.ethics.approved
    /\ ep.body = Null

(***************************************************************************)
(* Properties of the quality score.                                        *)
(***************************************************************************)
IsQualityCall == ep # Null /\ ep.endpoint = "check_data_quality"

\* the number of the four checks the content and metadata trigger
Triggered(content, metadata) ==
    Cardinality({c \in {"pii", "bias", "safety", "provenance"} :
        \/ c = "pii" /\ PiiFound(content)
        \/ c = "bias" /\ BiasFound(content)
        \/ c = "safety" /\ SafetyFound(content)
        \/ c = "provenance" /\ (ProvenanceDefect(metadata) \/ LicenseDefect(metadata))})

\* C15: check_data_quality returns max(0, 1 - k/4) for k triggered checks of
\* the four, so (in percent) one of 0, 25, 50, 75, 100.
C15_QuarterSteps ==
    IsQualityCall
    => LET k == Triggered(ep.request.content, ep.request.metadata)
       IN  /\ ep.body = Max2(0, 100 - 25 * k)
           /\ ep.body \in {0, 25, 50, 75, 100}

C15_Witness ==
    /\ IsQualityCall
    /\ Triggered(ep.request.content, ep.request.metadata) = 4
    /\ ep.body = 0

\* C16: with provenance missing or "unknown" and license missing or empty the
\* score is at most 0.75, and exactly 0.75 when no PII, bias or safety check
\* fires: the two defects count as one check.
C16_ProvenanceCountsOnce ==
    (/\ IsQualityCall
     /\ ProvenanceDefect(ep.request.metadata)
     /\ LicenseDefect(ep.request.metadata))
    => /\ ep.body <= 75
       /\ (/\ ~PiiFound(ep.request.content)
           /\ ~BiasFound(ep.request.content)
           /\ ~SafetyFound(ep.request.content)) => ep.body = 75

C16_Witness ==
    /\ IsQualityCall
    /\ ep.request.content = <<"d", "a", "t", "a">>
    /\ ep.request.metadata = [provenance |-> "unknown", license |-> ""]
    /\ ep.body = 75


(***************************************************************************)
(* POST /model: what a state shows of one call.  ep.invoked holds the      *)
(* entries _update_knowledge_graph printed, one per admitted entity in the *)
(* order of admission; ep.body is the returned list.                       *)
(***************************************************************************)
\* a call of POST /model that returned its list
IsModelCall == ep # Null /\ ep.endpoint = "model" /\ ep.response = OK

SameKey(a, b) == a.entity = b.entity /\ a.relation = b.relation

\* the admitted entries that share the key of e
AdmittedAs(e) == {k \in 1..Len(ep.invoked) : SameKey(ep.invoked[k], e)}

\* C17: the merged entity of a key carries exactly the maximum of the scores
\* of the admitted entries with that key: no admitted entry of the key scores
\* higher, one of them scores the same, and every admitted key is returned.
C17_MaxMerge ==
    IsModelCall
    => /\ \A j \in 1..Len(ep.body) :
             /\ \E k \in AdmittedAs(ep.body[j]) :
                   ep.invoked[k].evidence_score = ep.body[j].evidence_score
             /\ \A k \in AdmittedAs(ep.body[j]) :
                   Leq(ep.invoked[k].evidence_score, ep.body[j].evidence_score)
       /\ \A k \in 1..Len(ep.invoked) :
             \E j \in 1..Len(ep.body) : SameKey(ep.body[j], ep.invoked[k])

\* one key admitted three times, the middle score the highest: the maximum
\* comes after a lower score and before a lower score
C17_Witness ==
    /\ IsModelCall
    /\ \E i, j, k \in 1..Len(ep.invoked) :
          /\ i < j /\ j < k
          /\ SameKey(ep.invoked[i], ep.invoked[j])
          /\ SameKey(ep.invoked[j], ep.invoked[k])
          /\ Less(ep.invoked[i].evidence_score, ep.invoked[j].evidence_score)
          /\ Less(ep.invoked[k].evidence_score, ep.invoked[j].evidence_score)
          /\ \E b \in 1..Len(ep.body) :
                /\ SameKey(ep.body[b], ep.invoked[j])
                /\ ep.body[b].evidence_score = ep.invoked[j].evidence_score

\* C18: the returned list holds at most one entity per (entity, relation) pair.
C18_OnePerKey ==
    IsModelCall
    => \A i, j \in 1..Len(ep.body) : SameKey(ep.body[i], ep.body[j]) => i = j

\* a pair admitted twice, returned once
C18_Witness ==
    /\ IsModelCall
    /\ \E i, k \in 1..Len(ep.invoked) : i < k /\ SameKey(ep.invoked[i], ep.invoked[k])
    /\ Len(ep.body) < Len(ep.invoked)
    /\ Len(ep.body) > 0

\* evidence_score > 0.6, on a fraction of percent
Above60(e) == e.evidence_score.n > 60 * e.evidence_score.d

\* every candidate of the request with its score, in the order of the loops
Scored == model_knowledge(ep.request).scored

\* C19: every returned entity and every entry handed to the knowledge-graph
\* hook scores above 0.6, and the hook ran for no candidate scoring 0.6 or
\* less: it ran exactly once per candidate above 0.6.
C19_ThresholdStrict ==
    IsModelCall
    => \A scored \in {Scored} :
           /\ \A j \in 1..Len(ep.body) : Above60(ep.body[j])
           /\ \A k \in 1..Len(ep.invoked) : Above60(ep.invoked[k])
           /\ Len(ep.invoked) = Cardinality({c \in 1..Len(scored) : Above60(scored[c])})

\* a candidate scoring exactly 0.6 that is neither returned nor handed to the
\* hook, next to one that is admitted
C19_Witness ==
    /\ IsModelCall
    /\ Len(ep.body) > 0
    /\ \E scored \in {Scored} :
           \E c \in 1..Len(scored) :
              /\ scored[c].evidence_score = [n |-> 60, d |-> 1]
              /\ \A k \in 1..Len(ep.invoked) : ~SameKey(ep.invoked[k], scored[c])
              /\ \A j \in 1..Len(ep.body) : ~SameKey(ep.body[j], scored[c])

\* C20: the returned list is in non-increasing order of evidence_score, the
\* scores being the merged ones the list carries.
C20_SortedDescending ==
    IsModelCall
    => \A i, j \in 1..Len(ep.body) :
          i < j => Leq(ep.body[j].evidence_score, ep.body[i].evidence_score)

\* the first entity owes its place to its merged score: it was first admitted
\* with a score below that of the second
C20_Witness ==
    /\ IsModelCall
    /\ Len(ep.body) >= 2
    /\ Less(ep.body[2].evidence_score, ep.body[1].evidence_score)
    /\ \E k \in AdmittedAs(ep.body[1]) :
          Less(ep.invoked[k].evidence_score, ep.body[2].evidence_score)

\* C21: for every candidate the evidence score lies in [0, 1]; the frequency
\* bonus is at most 0.2, the relevance bonus at most 0.3, the relation bonus
\* 0.1 exactly for IMPROVES, ENABLES, BASED_ON and HAS_VALUE and 0 otherwise,
\* the position bonus lies in [0, 0.1] and is no larger than at any earlier
\* position, and the score is the sum with the quality score, cut at 1.
C21_ScoreBounded ==
    IsModelCall
    => \A scored \in {Scored} : \A c \in 1..Len(scored) :
          LET s  == scored[c]
              fb == frequency_bonus(s.frequency)
              rs == relevance_score(s.context)
              rb == relation_bonus(s.relation)
              pb == position_bonus(s.position, s.len)
          IN  /\ s.evidence_score.n >= 0
              /\ s.evidence_score.n <= 100 * s.evidence_score.d
              /\ fb >= 0 /\ fb <= 20
              /\ rs >= 0 /\ rs <= 30
              /\ rb = IF s.relation \in {<<"I", "M", "P", "R", "O", "V", "E", "S">>, <<"E", "N", "A", "B", "L", "E", "S">>, <<"B", "A", "S", "E", "D", "_", "O", "N">>,
                                         <<"H", "A", "S", "_", "V", "A", "L", "U", "E">>}
                      THEN 10 ELSE 0
              /\ pb >= 0 /\ pb <= 10 * s.len
              /\ \A p \in 0..s.position : position_bonus(p, s.len) >= pb
              /\ s.evidence_score.n * s.len
                    = s.evidence_score.d
                      * Min2(100 * s.len, (s.quality_score + fb + rs + rb) * s.len + pb)

\* a sixth mention among four relevance keywords: both caps and the cut at 1 act
C21_Witness ==
    /\ IsModelCall
    /\ \E scored \in {Scored} : \E c \in 1..Len(scored) :
          /\ scored[c].frequency * 5 > 20
          /\ Cardinality({k \in 1..Len(relevance_keywords) :
                             Contains(Lower(scored[c].context), relevance_keywords[k])}) > 3
          /\ scored[c].position > 0
          /\ scored[c].evidence_score = [n |-> 100, d |-> 1]

\* C22: a failure of _update_knowledge_graph for an admitted entity neither
\* aborts nor alters the call: POST /model still answers 200 with the list
\* model_knowledge returns when every hook call succeeds.
C22_HookFailureHarmless ==
    (ep # Null /\ ep.endpoint = "model")
    => /\ ep.response = OK
       /\ ep.body = model_knowledge(ep.request).entities

\* the stage endpoints that take a collection
NextStages == NextModel \/ NextIngest

SpecStages == Init /\ [][NextStages]_vars

IsIngestCall == ep # Null /\ ep.endpoint = "ingest"

\* C23: a stage given an empty collection answers with an empty, valid
\* output: POST /model with [] answers 200 with [] and calls the graph hook
\* for nothing, and POST /ingest with no source answers 200 with [].
C23_EmptyInEmptyOut ==
    /\ (ep # Null /\ ep.endpoint = "model" /\ ep.request = <<>>)
       => (ep.response = OK /\ ep.body = <<>> /\ ep.invoked = <<>>)
    /\ (IsIngestCall /\ ep.request.sources = <<>>)
       => (ep.response = OK /\ ep.body = <<>>)

\* POST /ingest for a topic with no source has been answered
C23_Witness ==
    /\ IsIngestCall
    /\ ep.request.sources = <<>>
    /\ ep.request.topic # <<>>
    /\ ep.response = OK

\* POST /model with [] has been answered
C23_WitnessModel ==
    /\ ep # Null
    /\ ep.endpoint = "model"
    /\ ep.request = <<>>
    /\ ep.response = OK

StageFailures(stage) == {stage} \cup {stage \o ": " \o m : m \in ExcMsgs}

\* C25: a fault raised inside a stage of the full flow leaves the handler as
\* a failure that names the stage that failed, and the text of the internal
\* exception is not what the caller receives.
C25_FaultNamesStage ==
    (pc = "done" /\ cause = "fault" /\ calls # <<>> /\ Last(calls).raised)
    => /\ outcome.status = 500
       /\ outcome.detail \in StageFailures(Last(calls).stage)

\* the orders a list can be processed in
Orders(s) == {p \in [1..Len(s) -> 1..Len(s)] : \A i, j \in 1..Len(s) : p[i] = p[j] => i = j}

Reordered(s, p) == [i \in 1..Len(s) |-> s[p[i]]]

\* the (entity, relation, evidence_score) triples of a returned list
Triples(entity_list) == {entity_list[j] : j \in 1..Len(entity_list)}

\* the keys handed to the hook
AdmittedKeys(graph) == {KeyOf(graph[k]) : k \in 1..Len(graph)}

\* C26: model_knowledge returns the same set of (entity, relation,
\* evidence_score) triples and admits the same keys whatever the order of
\* the documents of the request.
C26_OrderIndependent ==
    IsModelCall
    => \A p \in Orders(ep.request) :
          \A other \in {model_knowledge(Reordered(ep.request, p))} :
             /\ Triples(other.entities) = Triples(ep.body)
             /\ AdmittedKeys(other.graph) = AdmittedKeys(ep.invoked)

\* C27: a request that timed out is sent again at most once: one caller
\* request is transmitted at most twice, a timeout of the second
\* transmission is rejected to the caller, and every request settles.
C27_RetryOnce ==
    /\ [](inflight # Null
          => /\ inflight.transmissions <= 2
             /\ inflight.config._retry <=> inflight.transmissions = 2
             /\ (inflight.settled # Null /\ inflight.settled.code = "ECONNABORTED")
                => inflight.transmissions = 2)
    /\ [][(Pending /\ inflight.transmissions = 2 /\ Timeout)
          => inflight'.settled = Rejected("ECONNABORTED", 0)]_vars
    /\ (Pending ~> ~Pending)

\* the second transmission of a request has timed out and the caller has the
\* rejection
C27_Witness ==
    /\ Settling
    /\ inflight.settled.code = "ECONNABORTED"
    /\ inflight.transmissions = 2

\* C28 as stated: a 401 removes the token and sends the browser to /login
\* before the caller has the rejection, and a request sent while no token
\* is stored carries no Authorization header.
C28_NoHeaderWithoutToken ==
    /\ (Settling /\ inflight.settled.status = 401)
       => (localStorage.token = null /\ window.assigned = "/login")
    /\ (Pending /\ localStorage.token = null)
       => inflight.config.headers.Authorization = null

\* C28, amended: a 401 removes the token and sends the browser to /login
\* before the caller has the rejection, also on the retry; a request sent
\* while no token is stored carries only the header its caller passed or the
\* default of the instance, and none once the page has loaded anew unless
\* the caller passed one.
C28_TokenDroppedOn401 ==
    /\ (Settling /\ inflight.settled.status = 401)
       => (localStorage.token = null /\ window.assigned = "/login")
    /\ (Pending /\ localStorage.token = null)
       => inflight.config.headers.Authorization
             \in CallerHeaders \cup {defaults.Authorization}

\* a 401 answered the retry of a request that carried the token
C28_Witness ==
    /\ Settling
    /\ inflight.settled.status = 401
    /\ inflight.transmissions = 2
    /\ inflight.config.headers.Authorization \in {Bearer(t) : t \in Tokens}

\* C29: once a submit has settled, loading and isWakingUp are false and its
\* wake-up timer is no longer set, whether it fired before or not; the token
\* is written to localStorage only by a submit whose response carries an
\* access_token.
C29_SubmitSettles ==
    /\ [](login.pc = "idle"
          => (~login.loading /\ ~login.isWakingUp /\ login.wakeUpTimer # "set"))
    /\ [][localStorage'.token \notin {localStorage.token, null}
          => /\ Settling
             /\ inflight.caller = "login"
             /\ inflight.settled.kind = "fulfilled"
             /\ "access_token" \in DOMAIN inflight.settled.data
             /\ localStorage'.token = inflight.settled.data.access_token]_vars

\* the timer fired while the request was pending and the submit has settled
\* with an error
C29_Witness ==
    /\ login.pc = "idle"
    /\ login.wakeUpTimer = "fired"
    /\ login.err # null
    /\ ~login.isWakingUp

\* C30: the Run button is disabled whenever loading is true or the topic is
\* empty; at most one fullFlow request of the page is in flight, loading is
\* true exactly while one is, and a request that fails leaves the results
\* shown as they were.
C30_OneFlowAtATime ==
    /\ []((home.loading \/ home.topic = "") => ~ButtonEnabled(home))
    /\ [](Len(home.pending) <= 1)
    /\ [](home.loading <=> home.pending # <<>>)
    /\ [][ClickRun => (home'.loading /\ home'.pending = <<home.topic>>)]_vars
    /\ [][FlowRejected => (home'.results = home.results /\ ~home'.loading)]_vars

\* a request failed after an earlier one had shown its results
C30_Witness ==
    /\ home.settled = "rejected"
    /\ home.results # null
    /\ home.pending = <<>>
    /\ ~home.loading
====
